---- MODULE Spec2Model ----
(***************************************************************************)
(* Hybrid retrieval index (backend/codeqa): the RagIndex build / load /    *)
(* search state machine over its persisted artifacts, and the durable      *)
(* build pipeline RagSourceService._build with its directory swap.         *)
(*                                                                         *)
(* Conventions.  An optional value (Python None, a missing or unreadable   *)
(* file, a missing directory) is the empty tuple <<>>; a present value v   *)
(* is the one-element tuple <<v>>.  A text is a tuple of one-character     *)
(* strings.  sha256 is modelled as injective on its input bytes, so a      *)
(* digest is represented by the bytes that were hashed.  ln is monotone    *)
(* and injective, so an idf value is represented by the fraction under     *)
(* the logarithm; floats are fractions <<numerator, denominator>>.         *)
(***************************************************************************)
EXTENDS Integers, Sequences, FiniteSets, TLC

\* ------------------------------------------------------------------ bounds

\* number of calls made to raise (an I/O or model call that fails) in one
\* behaviour
MaxFaults == 1

\* number of artifact files damaged from outside in one behaviour
MaxDamage == 1

\* number of _build calls started in one behaviour
MaxCalls == 2

\* ------------------------------------------------------------- input sets

\* the document lists handed to a build: none, one document, two documents
Corpora == { <<>>, << <<"a">> >>, << <<"A", " ", "b">>, <<"a">> >> }

\* embedding models: name, dimension of the vectors, and whether the model
\* object has get_sentence_embedding_dimension (rag_index.py:69-70)
Models == { "mA", "mB", "mC" }

ModelDim(m) == IF m = "mA" THEN 3 ELSE 4

ModelReportsDim(m) == m # "mC"

\* RagConfig values a RagIndex is constructed with
Configs ==
    { [index_version |-> "1", model |-> "mA", persist_embeddings |-> TRUE],
      [index_version |-> "2", model |-> "mA", persist_embeddings |-> TRUE],
      [index_version |-> "1", model |-> "mB", persist_embeddings |-> TRUE],
      [index_version |-> "1", model |-> "mC", persist_embeddings |-> FALSE] }

DefaultConfig == [index_version |-> "1", model |-> "mA", persist_embeddings |-> TRUE]

\* ------------------------------------------------------------- filesystem

Artifacts == { "index", "docs", "tokens", "keywords", "whoosh", "emb", "meta" }

\* a directory that exists and holds nothing
EmptyDir ==
    [index |-> <<>>, docs |-> <<>>, tokens |-> <<>>, keywords |-> <<>>,
     whoosh |-> <<>>, emb |-> <<>>, meta |-> <<>>, source_meta |-> <<>>]

\* the order in which _save_index_and_docs writes the artifacts
SaveSteps ==
    << "index", "docs", "tokens", "keywords", "whoosh", "emb", "meta" >>

\* where a call can be made to raise: nowhere, in the embedding call, in one
\* of the writes of _save_index_and_docs, in load's fallback fuzzy build
FailPoints == { "none", "encode", "fuzzy_fallback" } \cup Artifacts

StepNo(a) == CHOOSE i \in 1..Len(SaveSteps) : SaveSteps[i] = a

\* ------------------------------------------------------- keyword_index.py

Lower(ch) == IF ch = "A" THEN "a" ELSE IF ch = "B" THEN "b" ELSE ch

RECURSIVE SplitWhitespace(_, _, _)
SplitWhitespace(s, cur, acc) ==
    IF s = <<>>
    THEN IF cur = <<>> THEN acc ELSE Append(acc, cur)
    ELSE IF Head(s) = " "
         THEN SplitWhitespace(Tail(s), <<>>,
                              IF cur = <<>> THEN acc ELSE Append(acc, cur))
         ELSE SplitWhitespace(Tail(s), Append(cur, Head(s)), acc)

_tokenize(text) ==
    SplitWhitespace([i \in 1..Len(text) |-> Lower(text[i])], <<>>, <<>>)

RECURSIVE SumSeq(_)
SumSeq(s) == IF s = <<>> THEN 0 ELSE Head(s) + SumSeq(Tail(s))

TokenSet(tokens) == { tokens[i] : i \in 1..Len(tokens) }

\* KeywordIndex.build: idf[token] = ln((N - df + 0.5)/(df + 0.5) + 1), held
\* as the fraction (2N + 2)/(2df + 1) under the logarithm
KeywordIndexBuild(texts) ==
    LET tokenized_docs == [i \in 1..Len(texts) |-> _tokenize(texts[i])]
        doc_lengths == [i \in 1..Len(texts) |-> Len(tokenized_docs[i])]
        vocab == UNION { TokenSet(tokenized_docs[i]) : i \in 1..Len(texts) }
        doc_freq(t) ==
            Cardinality({ i \in 1..Len(texts) : t \in TokenSet(tokenized_docs[i]) })
        num_docs == IF Len(texts) = 0 THEN 1 ELSE Len(texts)
        avgdl == IF Len(texts) = 0 THEN <<0, 1>>
                 ELSE <<SumSeq(doc_lengths), num_docs>>
    IN  [tokenized_docs |-> tokenized_docs,
         idf |-> [t \in vocab |-> <<2 * num_docs + 2, 2 * doc_freq(t) + 1>>],
         doc_lengths |-> doc_lengths,
         avgdl |-> avgdl,
         k1 |-> <<3, 2>>,
         b |-> <<3, 4>>]

to_persisted(kw) ==
    [idf |-> kw.idf, doc_lengths |-> kw.doc_lengths, avgdl |-> kw.avgdl,
     k1 |-> kw.k1, b |-> kw.b]

\* from_persisted that does not read the stored average length
from_persisted_default_avgdl(tokenized_docs, data) ==
    [tokenized_docs |-> tokenized_docs, idf |-> data.idf,
     doc_lengths |-> data.doc_lengths, avgdl |-> <<0, 1>>,
     k1 |-> data.k1, b |-> data.b]

from_persisted(tokenized_docs, data) ==
    [tokenized_docs |-> tokenized_docs, idf |-> data.idf,
     doc_lengths |-> data.doc_lengths, avgdl |-> data.avgdl,
     k1 |-> data.k1, b |-> data.b]

\* ----------------------------------------------------------- rag_index.py

\* model.encode(texts): one vector per text, determined by the model and the
\* text
Encode(model, texts) ==
    [i \in 1..Len(texts) |-> [m |-> model, t |-> texts[i]]]

\* faiss.IndexFlatIP(dim) followed by index.add(embeddings)
IndexFlatIP(model, embeddings) == [d |-> ModelDim(model), vecs |-> embeddings]

RECURSIVE Concat(_)
Concat(docs) == IF docs = <<>> THEN <<>> ELSE Head(docs) \o Concat(Tail(docs))

_compute_checksum(docs) == Concat(docs)

\* the state of a RagIndex after __init__
Uninitialized ==
    [index |-> <<>>, docs |-> <<>>, tokenized_docs |-> <<>>,
     keyword_index |-> <<>>, inverted_index |-> <<>>, doc_embeddings |-> <<>>]

\* InvertedIndex.build: the on-disk fuzzy index, storing each document under
\* its ordinal
InvertedIndexBuild(docs) == [content |-> docs]

\* _save_index_and_docs: the writes before the failing one are done
_save_index_and_docs(dirOpt, cfg, index, docs, tokenized_docs, keyword_index, embeddings, checksum, fail) ==
    LET d0 == IF dirOpt = <<>> THEN EmptyDir ELSE dirOpt[1]
        runs(a) == a # "emb" \/ cfg.persist_embeddings
        hit == fail \in Artifacts /\ runs(fail)
        done(a) == runs(a) /\ (~hit \/ StepNo(a) < StepNo(fail))
        d1 == [d0 EXCEPT
                 !.index = IF done("index") THEN <<index>> ELSE @,
                 !.docs = IF done("docs") THEN <<docs>> ELSE @,
                 !.tokens = IF done("tokens") THEN <<tokenized_docs>> ELSE @,
                 !.keywords = IF done("keywords")
                              THEN <<to_persisted(keyword_index)>> ELSE @,
                 !.whoosh = IF done("whoosh")
                            THEN <<InvertedIndexBuild(docs)>> ELSE @,
                 !.emb = IF done("emb") THEN <<embeddings>> ELSE @,
                 !.meta = IF done("meta")
                          THEN <<[version |-> cfg.index_version,
                                  checksum |-> checksum]>>
                          ELSE @]
    IN  [dir |-> <<d1>>, raised |-> hit]

\* InvertedIndex.from_dir: a handle on the directory, or FileNotFoundError
from_dir_exists(dirOpt) == dirOpt # <<>> /\ dirOpt[1].whoosh # <<>>

\* build_from_texts past its empty-input check (rag_index.py:186-213)
build_nonempty(mem, dirOpt, cfg, path, texts, fail) ==
    IF fail = "encode"
    THEN [mem |-> mem, dir |-> dirOpt, outcome |-> "ModelError",
          encoded |-> TRUE, hit |-> TRUE]
    ELSE
      LET embeddings == Encode(cfg.model, texts)
          index == IndexFlatIP(cfg.model, embeddings)
          keyword_index == KeywordIndexBuild(texts)
          checksum == _compute_checksum(texts)
          saved == _save_index_and_docs(dirOpt, cfg, index, texts,
                                        keyword_index.tokenized_docs,
                                        keyword_index, embeddings, checksum, fail)
          assigned == [mem EXCEPT
                         !.index = <<index>>,
                         !.docs = texts,
                         !.tokenized_docs = keyword_index.tokenized_docs,
                         !.keyword_index = <<keyword_index>>,
                         !.doc_embeddings = <<embeddings>>]
      IN  IF saved.raised
          THEN [mem |-> mem, dir |-> saved.dir, outcome |-> "OSError",
                encoded |-> TRUE, hit |-> TRUE]
          ELSE IF from_dir_exists(saved.dir)
          THEN [mem |-> [assigned EXCEPT !.inverted_index = <<[root_dir |-> path]>>],
                dir |-> saved.dir, outcome |-> "ok",
                encoded |-> TRUE, hit |-> FALSE]
          ELSE [mem |-> assigned, dir |-> saved.dir,
                outcome |-> "FileNotFoundError",
                encoded |-> TRUE, hit |-> FALSE]

\* build_from_texts without its empty-input check
build_from_texts_unchecked(mem, dirOpt, cfg, path, texts, fail) ==
    build_nonempty(mem, dirOpt, cfg, path, texts, fail)

\* build_from_texts on an instance with in-memory state mem whose config
\* points at the directory dirOpt (at path)
build_from_texts(mem, dirOpt, cfg, path, texts, fail) ==
    IF texts = <<>>
    THEN [mem |-> mem, dir |-> dirOpt, outcome |-> "ValueError",
          encoded |-> FALSE, hit |-> FALSE]
    ELSE build_nonempty(mem, dirOpt, cfg, path, texts, fail)

\* the rebuild decision without the version comparison
needs_rebuild_no_version(d, cfg, docs) ==
    \/ d.index = <<>>
    \/ (ModelReportsDim(cfg.model) /\ d.index[1].d # ModelDim(cfg.model))
    \/ d.meta = <<>>
    \/ d.meta[1].checksum # _compute_checksum(docs)

\* a load that always rebuilds
needs_rebuild_always(d, cfg, docs) == TRUE

\* the rebuild decision of load (rag_index.py:234-239)
needs_rebuild(d, cfg, docs) ==
    \/ d.index = <<>>
    \/ (ModelReportsDim(cfg.model) /\ d.index[1].d # ModelDim(cfg.model))
    \/ d.meta = <<>>
    \/ d.meta[1].version # cfg.index_version
    \/ d.meta[1].checksum # _compute_checksum(docs)

\* the three reads at the top of load
load_readable(dirOpt) ==
    /\ dirOpt # <<>>
    /\ dirOpt[1].docs # <<>>
    /\ dirOpt[1].tokens # <<>>
    /\ dirOpt[1].keywords # <<>>

\* load that drops its structures before it reads
load_missing_resets(mem, dirOpt) ==
    [mem |-> Uninitialized, dir |-> dirOpt, outcome |-> "FileNotFoundError",
     encoded |-> FALSE, rebuilt |-> FALSE, hit |-> FALSE]

\* load when one of the three reads raises: FileNotFoundError, nothing done
load_missing(mem, dirOpt) ==
    [mem |-> mem, dir |-> dirOpt, outcome |-> "FileNotFoundError",
     encoded |-> FALSE, rebuilt |-> FALSE, hit |-> FALSE]

\* the tail of load: the four assignments, then the fuzzy index is opened, or
\* built when it is missing
load_finish(mem, d, path, index, docs, tokenized_docs, keyword_index, encoded, rebuilt, fail) ==
    LET assigned == [mem EXCEPT
                       !.index = <<index>>,
                       !.docs = docs,
                       !.tokenized_docs = tokenized_docs,
                       !.keyword_index = <<keyword_index>>]
        handle == <<[root_dir |-> path]>>
    IN  IF d.whoosh # <<>>
        THEN [mem |-> [assigned EXCEPT !.inverted_index = handle],
              dir |-> <<d>>, outcome |-> "ok", encoded |-> encoded,
              rebuilt |-> rebuilt, hit |-> FALSE]
        ELSE IF fail = "fuzzy_fallback"
        THEN [mem |-> assigned, dir |-> <<d>>, outcome |-> "OSError",
              encoded |-> encoded, rebuilt |-> rebuilt, hit |-> TRUE]
        ELSE [mem |-> [assigned EXCEPT !.inverted_index = handle],
              dir |-> <<[d EXCEPT !.whoosh = <<InvertedIndexBuild(docs)>>]>>,
              outcome |-> "ok", encoded |-> encoded, rebuilt |-> rebuilt,
              hit |-> FALSE]

\* load on an instance with in-memory state mem whose config points at the
\* directory dirOpt (at path).  _rebuild_index_from_docs is the first branch;
\* encoding an empty list yields an array without a second axis, so
\* embeddings.shape[1] raises IndexError
load(mem, dirOpt, cfg, path, fail) ==
    IF ~load_readable(dirOpt)
    THEN load_missing(mem, dirOpt)
    ELSE
      LET d == dirOpt[1]
          docs == d.docs[1]
      IN  IF needs_rebuild(d, cfg, docs)
          THEN IF fail = "encode"
               THEN [mem |-> mem, dir |-> dirOpt, outcome |-> "ModelError",
                     encoded |-> TRUE, rebuilt |-> FALSE, hit |-> TRUE]
               ELSE IF docs = <<>>
               THEN [mem |-> mem, dir |-> dirOpt, outcome |-> "IndexError",
                     encoded |-> TRUE, rebuilt |-> FALSE, hit |-> FALSE]
               ELSE
                 LET embeddings == Encode(cfg.model, docs)
                     index == IndexFlatIP(cfg.model, embeddings)
                     keyword_index == KeywordIndexBuild(docs)
                     saved == _save_index_and_docs(
                                  dirOpt, cfg, index, docs,
                                  keyword_index.tokenized_docs, keyword_index,
                                  embeddings, _compute_checksum(docs), fail)
                 IN  IF saved.raised
                     THEN [mem |-> mem, dir |-> saved.dir, outcome |-> "OSError",
                           encoded |-> TRUE, rebuilt |-> FALSE, hit |-> TRUE]
                     ELSE load_finish(
                              [mem EXCEPT !.doc_embeddings = <<embeddings>>],
                              saved.dir[1], path, index, docs,
                              keyword_index.tokenized_docs, keyword_index,
                              TRUE, TRUE, fail)
          ELSE
            LET keyword_index == from_persisted(d.tokens[1], d.keywords[1])
                mem1 == IF cfg.persist_embeddings
                        THEN [mem EXCEPT !.doc_embeddings = d.emb]
                        ELSE mem
            IN  load_finish(mem1, d, path, d.index[1], docs, d.tokens[1],
                            keyword_index, FALSE, FALSE, fail)

\* the guard without the test of the fuzzy index
not_loaded_no_fuzzy(mem) ==
    \/ mem.index = <<>>
    \/ mem.docs = <<>>
    \/ mem.keyword_index = <<>>
    \/ mem.tokenized_docs = <<>>

\* the guard at the top of search (rag_index.py:262-269)
not_loaded(mem) ==
    \/ mem.index = <<>>
    \/ mem.docs = <<>>
    \/ mem.keyword_index = <<>>
    \/ mem.tokenized_docs = <<>>
    \/ mem.inverted_index = <<>>

\* search: the not-loaded error, or the three sub-engines are queried
search(mem) ==
    IF not_loaded(mem)
    THEN [outcome |-> "RuntimeError", engines |-> {}]
    ELSE [outcome |-> "ok", engines |-> {"vector", "bm25", "fuzzy"}]

\* ------------------------------------------------------------------ state

VARIABLES
    fs,        \* path -> directory (optional)
    idx,       \* the RagIndex instance of the index specification
    lastOp,    \* what the last call on idx did
    everOk,    \* a build_from_texts or load has completed on idx
    faults,    \* calls made to raise so far
    damage,    \* files damaged so far
    pc,        \* _build call -> the statement it is at
    loc,       \* _build call -> its local variables
    locks,     \* source id -> holder of the flock on <id>.lock (optional)
    calls      \* _build calls started so far

vars == <<fs, idx, lastOp, everOk, faults, damage, pc, loc, locks, calls>>

\* the state of the build pipeline
svcVars == <<pc, loc, locks, calls>>

\* --------------------------------------------------- build pipeline: data

\* concurrent callers of RagSourceService._build
Builders == { "b1", "b2" }

\* source ids
Sids == { "s1", "s2" }

\* <base>/<id>, <base>/<id>.tmp and <base>/<id>.bak
Srv(s) == <<s, "srv">>

Tmp(s) == <<s, "tmp">>

Bak(s) == <<s, "bak">>

SourcePaths == { Srv(s) : s \in Sids } \cup { Tmp(s) : s \in Sids }
                 \cup { Bak(s) : s \in Sids }

\* the chunk lists collected for a build: none found, or the new corpus
ChunkLists == { <<>>, << <<"A", " ", "b">>, <<"a">> >> }

\* the corpus of a source that was built before
ServedChunks == << <<"a">> >>

\* _build_config_from_env
EnvConfig == DefaultConfig

\* metadata.json of a source
SourceMetadata(s, chunks) == [id |-> s, total_chunks |-> Len(chunks)]

\* the serving directory an earlier build of ServedChunks left
ServedDir(s) ==
    [build_from_texts(Uninitialized, <<>>, EnvConfig, Srv(s), ServedChunks,
                      "none").dir[1]
       EXCEPT !.source_meta = <<SourceMetadata(s, ServedChunks)>>]

\* the locals of _build before a call; failedAt and outcome record how the
\* call ended, prev the serving directory the swap moved away, at_call the
\* serving directory when the call was made, and alone that no other call
\* for the same source was in progress at any time during the call
IdleLoc ==
    [sid |-> "none", chunks |-> <<>>, existing |-> FALSE,
     temp_dir |-> FALSE, target_dir |-> FALSE, backup_dir |-> <<>>,
     swap_backup |-> <<>>, failedAt |-> "", outcome |-> "",
     prev |-> <<>>, at_call |-> <<>>, alone |-> TRUE]

InitService ==
    /\ pc = [b \in Builders |-> "idle"]
    /\ loc = [b \in Builders |-> IdleLoc]
    /\ locks = [s \in Sids |-> <<>>]
    /\ calls = 0

DataDir == <<"data", "srv">>

Paths == { DataDir }

NoOp ==
    [op |-> "init", outcome |-> "ok", encoded |-> FALSE, rebuilt |-> FALSE,
     engines |-> {}, afterBuildOk |-> FALSE, afterRebuild |-> FALSE]

\* the last call on idx was a build_from_texts that returned
BuildOk == lastOp.op = "build_from_texts" /\ lastOp.outcome = "ok"

\* the last call on idx was a load that rebuilt and returned
RebuildOk == lastOp.op = "load" /\ lastOp.outcome = "ok" /\ lastOp.rebuilt

\* an index directory provisioned from outside for an empty document list
EmptyCorpusDir ==
    [EmptyDir EXCEPT
       !.index = <<IndexFlatIP(DefaultConfig.model, <<>>)>>,
       !.docs = << <<>> >>,
       !.tokens = << <<>> >>,
       !.keywords = <<to_persisted(KeywordIndexBuild(<<>>))>>,
       !.whoosh = <<InvertedIndexBuild(<<>>)>>,
       !.emb = << <<>> >>,
       !.meta = <<[version |-> DefaultConfig.index_version,
                   checksum |-> _compute_checksum(<<>>)]>>]

InitIndex ==
    /\ fs \in [Paths -> { <<>>, <<EmptyCorpusDir>> }]
    /\ idx = [cfg |-> DefaultConfig, mem |-> Uninitialized]
    /\ lastOp = NoOp
    /\ everOk = FALSE
    /\ faults = 0
    /\ damage = 0
    /\ InitService

\* a call may be made to raise while the fault budget lasts
CanFail(fail) == fail = "none" \/ faults < MaxFaults

\* and the point named must be one the call reaches
Reaches(fail, hit) == (fail = "none") = ~hit

\* RagIndex(config): a fresh instance
NewInstance(c) ==
    /\ idx' = [cfg |-> c, mem |-> Uninitialized]
    /\ lastOp' = [NoOp EXCEPT !.op = "new", !.afterBuildOk = BuildOk,
                          !.afterRebuild = RebuildOk]
    /\ everOk' = FALSE
    /\ UNCHANGED <<fs, faults, damage, svcVars>>

BuildFromTexts(texts, fail) ==
    /\ CanFail(fail)
    /\ \E r \in { build_from_texts(idx.mem, fs[DataDir], idx.cfg, DataDir,
                                      texts, fail) } :
        /\ Reaches(fail, r.hit)
        /\ idx' = [idx EXCEPT !.mem = r.mem]
        /\ fs' = [fs EXCEPT ![DataDir] = r.dir]
        /\ lastOp' = [op |-> "build_from_texts", outcome |-> r.outcome,
                      encoded |-> r.encoded, rebuilt |-> FALSE, engines |-> {},
                      afterBuildOk |-> BuildOk,
                      afterRebuild |-> RebuildOk]
        /\ everOk' = (everOk \/ r.outcome = "ok")
        /\ faults' = IF r.hit THEN faults + 1 ELSE faults
        /\ UNCHANGED <<damage, svcVars>>

Load(fail) ==
    /\ CanFail(fail)
    /\ \E r \in { load(idx.mem, fs[DataDir], idx.cfg, DataDir, fail) } :
        /\ Reaches(fail, r.hit)
        /\ idx' = [idx EXCEPT !.mem = r.mem]
        /\ fs' = [fs EXCEPT ![DataDir] = r.dir]
        /\ lastOp' = [op |-> "load", outcome |-> r.outcome,
                      encoded |-> r.encoded, rebuilt |-> r.rebuilt,
                      engines |-> {}, afterBuildOk |-> BuildOk,
                      afterRebuild |-> RebuildOk]
        /\ everOk' = (everOk \/ r.outcome = "ok")
        /\ faults' = IF r.hit THEN faults + 1 ELSE faults
        /\ UNCHANGED <<damage, svcVars>>

Search ==
    LET r == search(idx.mem)
    IN  /\ lastOp' = [op |-> "search", outcome |-> r.outcome,
                      encoded |-> FALSE, rebuilt |-> FALSE,
                      engines |-> r.engines, afterBuildOk |-> BuildOk,
                      afterRebuild |-> RebuildOk]
        /\ UNCHANGED <<fs, idx, everOk, faults, damage, svcVars>>

\* the artifacts the environment may damage: two that load cannot do without
\* and two whose loss it repairs
Damageable == { "index", "docs", "whoosh", "meta" }

\* environment: an artifact of the directory becomes unreadable
DamageFile(a) ==
    /\ damage < MaxDamage
    /\ fs[DataDir] # <<>>
    /\ fs[DataDir][1][a] # <<>>
    /\ fs' = [fs EXCEPT ![DataDir] = <<[@[1] EXCEPT ![a] = <<>>]>>]
    /\ damage' = damage + 1
    /\ lastOp' = [NoOp EXCEPT !.op = "damage", !.afterBuildOk = BuildOk,
                          !.afterRebuild = RebuildOk]
    /\ UNCHANGED <<idx, everOk, faults, svcVars>>

NextIndex ==
    \/ \E c \in Configs : NewInstance(c)
    \/ \E texts \in Corpora, fail \in FailPoints : BuildFromTexts(texts, fail)
    \/ \E fail \in FailPoints : Load(fail)
    \/ Search
    \/ \E a \in Damageable : DamageFile(a)

SpecIndex == InitIndex /\ [][NextIndex]_vars

\* ------------------------------------------------ build pipeline: actions

\* the directory _build hands to the RagIndex it builds with
\* (self._build_config_for_dir(temp_dir)), given as the serving directory
build_dir_serving(s) == Srv(s)

\* the directory _build hands to the RagIndex it builds with
\* (self._build_config_for_dir(temp_dir))
build_dir(s) == Tmp(s)

\* fcntl.flock(LOCK_EX) that does not wait for the holder
flock_free_always(lk, s) == TRUE

\* fcntl.flock(LOCK_EX) on <s>.lock returns when nobody holds it
flock_free(lk, s) == lk[s] = <<>>

\* a directory that holds every artifact of one corpus under EnvConfig
Complete(dirOpt) ==
    /\ dirOpt # <<>>
    /\ load_readable(dirOpt)
    /\ dirOpt[1].whoosh # <<>>
    /\ ~needs_rebuild(dirOpt[1], EnvConfig, dirOpt[1].docs[1])

\* the statements executed while the lock is held
LockedSection ==
    { "prepare", "build", "swap_backup", "swap_replace", "save",
      "write_metadata" }

\* an exception leaves the with-blocks (the lock is released, the
\* transaction rolled back) and reaches the handler of _build
Raise(b, where) ==
    /\ pc' = [pc EXCEPT ![b] = "except"]
    /\ loc' = [loc EXCEPT ![b].failedAt = where]
    /\ locks' = [locks EXCEPT ![loc[b].sid] = <<>>]

\* _build is called for source s with the chunks collected for it
StartBuild(b, s, chunks) ==
    /\ pc[b] = "idle"
    /\ calls < MaxCalls
    /\ calls' = calls + 1
    /\ pc' = [pc EXCEPT ![b] = "lock"]
    /\ loc' = [b2 \in Builders |->
                 IF b2 = b
                 THEN [IdleLoc EXCEPT
                         !.sid = s, !.chunks = chunks,
                         !.existing = fs[Srv(s)] # <<>>,
                         !.at_call = fs[Srv(s)],
                         !.alone = \A b3 \in Builders \ {b} :
                                      pc[b3] = "idle" \/ loc[b3].sid # s]
                 ELSE IF pc[b2] # "idle" /\ loc[b2].sid = s
                 THEN [loc[b2] EXCEPT !.alone = FALSE]
                 ELSE loc[b2]]
    /\ UNCHANGED <<fs, idx, lastOp, everOk, faults, damage, locks>>

\* with self._acquire_source_lock(str(source.id))
AcquireLock(b) ==
    /\ pc[b] = "lock"
    /\ flock_free(locks, loc[b].sid)
    /\ locks' = [locks EXCEPT ![loc[b].sid] = <<b>>]
    /\ pc' = [pc EXCEPT ![b] = "prepare"]
    /\ UNCHANGED <<fs, idx, lastOp, everOk, faults, damage, loc, calls>>

\* temp_dir and target_dir are set, then _prepare_temp_dir(temp_dir)
PrepareTempDir(b) ==
    /\ pc[b] = "prepare"
    /\ fs' = [fs EXCEPT ![Tmp(loc[b].sid)] = <<EmptyDir>>]
    /\ loc' = [loc EXCEPT ![b].temp_dir = TRUE, ![b].target_dir = TRUE]
    /\ pc' = [pc EXCEPT ![b] = "build"]
    /\ UNCHANGED <<idx, lastOp, everOk, faults, damage, locks, calls>>

\* points at which the construction of the new index is made to raise
BuildFailPoints == { "none", "construct", "encode", "docs", "meta" }

\* rag_index = RagIndex(config); rag_index.build_from_texts(chunks)
BuildIndex(b, fail) ==
    /\ pc[b] = "build"
    /\ CanFail(fail)
    /\ LET s == loc[b].sid
           dir == build_dir(s)
       IN  IF fail = "construct"
           THEN /\ Raise(b, "build")
                /\ faults' = faults + 1
                /\ UNCHANGED fs
           ELSE \E r \in { build_from_texts(Uninitialized, fs[dir], EnvConfig,
                                             dir, loc[b].chunks, fail) } :
                  /\ Reaches(fail, r.hit)
                  /\ fs' = [fs EXCEPT ![dir] = r.dir]
                  /\ faults' = IF r.hit THEN faults + 1 ELSE faults
                  /\ IF r.outcome = "ok"
                     THEN /\ pc' = [pc EXCEPT ![b] = "swap_backup"]
                          /\ UNCHANGED <<loc, locks>>
                     ELSE Raise(b, "build")
    /\ UNCHANGED <<idx, lastOp, everOk, damage, calls>>

\* _atomic_swap_dir, first part: an existing target is moved to <id>.bak,
\* over whatever backup was there
SwapMoveTarget(b) ==
    /\ pc[b] = "swap_backup"
    /\ LET s == loc[b].sid
       IN  IF fs[Srv(s)] # <<>>
           THEN /\ fs' = [fs EXCEPT ![Bak(s)] = fs[Srv(s)], ![Srv(s)] = <<>>]
                /\ loc' = [loc EXCEPT ![b].swap_backup = <<Bak(s)>>,
                                      ![b].prev = fs[Srv(s)]]
           ELSE /\ UNCHANGED fs
                /\ loc' = [loc EXCEPT ![b].prev = <<>>]
    /\ pc' = [pc EXCEPT ![b] = "swap_replace"]
    /\ UNCHANGED <<idx, lastOp, everOk, faults, damage, locks, calls>>

\* rename(2) of a directory: the source must exist and an existing
\* destination must be an empty directory
rename_ok(from, to) == from # <<>> /\ (to = <<>> \/ to = <<EmptyDir>>)

\* _atomic_swap_dir, second part: os.replace(temp_dir, target_dir), and the
\* backup path is returned into backup_dir of _build
SwapReplace(b) ==
    /\ pc[b] = "swap_replace"
    /\ LET s == loc[b].sid
       IN  IF rename_ok(fs[Tmp(s)], fs[Srv(s)])
           THEN /\ fs' = [fs EXCEPT ![Srv(s)] = fs[Tmp(s)], ![Tmp(s)] = <<>>]
                /\ loc' = [loc EXCEPT ![b].backup_dir = loc[b].swap_backup]
                /\ pc' = [pc EXCEPT ![b] = "save"]
                /\ UNCHANGED locks
           ELSE /\ Raise(b, "replace")
                /\ UNCHANGED fs
    /\ UNCHANGED <<idx, lastOp, everOk, faults, damage, calls>>

\* source.path = str(base_dir); source.save(...)
SaveSource(b, fail) ==
    /\ pc[b] = "save"
    /\ fail \in { "none", "save" }
    /\ CanFail(fail)
    /\ IF fail = "save"
       THEN /\ Raise(b, "save")
            /\ faults' = faults + 1
       ELSE /\ pc' = [pc EXCEPT ![b] = "write_metadata"]
            /\ UNCHANGED <<loc, locks, faults>>
    /\ UNCHANGED <<fs, idx, lastOp, everOk, damage, calls>>

\* _write_metadata_file(source): base_dir.mkdir(exist_ok=True) and
\* metadata.json is written; then the lock is left
WriteMetadata(b, fail) ==
    /\ pc[b] = "write_metadata"
    /\ fail \in { "none", "source_meta" }
    /\ CanFail(fail)
    /\ LET s == loc[b].sid
           d == IF fs[Srv(s)] = <<>> THEN EmptyDir ELSE fs[Srv(s)][1]
       IN  IF fail = "source_meta"
           THEN /\ Raise(b, "write_metadata")
                /\ faults' = faults + 1
                /\ fs' = [fs EXCEPT ![Srv(s)] = <<d>>]
           ELSE /\ fs' = [fs EXCEPT ![Srv(s)] =
                            <<[d EXCEPT !.source_meta =
                                 <<SourceMetadata(s, loc[b].chunks)>>]>>]
                /\ pc' = [pc EXCEPT ![b] = "on_commit"]
                /\ locks' = [locks EXCEPT ![s] = <<>>]
                /\ UNCHANGED <<loc, faults>>
    /\ UNCHANGED <<idx, lastOp, everOk, damage, calls>>

\* the transaction commits and _on_commit removes the backup
OnCommit(b) ==
    /\ pc[b] = "on_commit"
    /\ fs' = IF loc[b].backup_dir # <<>>
             THEN [fs EXCEPT ![loc[b].backup_dir[1]] = <<>>]
             ELSE fs
    /\ loc' = [loc EXCEPT ![b].outcome = "ok"]
    /\ pc' = [pc EXCEPT ![b] = "finally"]
    /\ UNCHANGED <<idx, lastOp, everOk, faults, damage, locks, calls>>

\* except Exception: the backup is moved back when backup_dir is set and
\* exists; RagSourceBuildError is raised
HandleError(b) ==
    /\ pc[b] = "except"
    /\ LET s == loc[b].sid
       IN  fs' = IF /\ loc[b].backup_dir # <<>>
                    /\ fs[loc[b].backup_dir[1]] # <<>>
                    /\ loc[b].target_dir
                 THEN [fs EXCEPT ![Srv(s)] = fs[Bak(s)], ![Bak(s)] = <<>>]
                 ELSE fs
    /\ loc' = [loc EXCEPT ![b].outcome = "RagSourceBuildError"]
    /\ pc' = [pc EXCEPT ![b] = "finally"]
    /\ UNCHANGED <<idx, lastOp, everOk, faults, damage, locks, calls>>

\* finally: temp_dir is removed when it is set and exists; _build returns
Finally(b) ==
    /\ pc[b] = "finally"
    /\ fs' = IF loc[b].temp_dir
             THEN [fs EXCEPT ![Tmp(loc[b].sid)] = <<>>]
             ELSE fs
    /\ pc' = [pc EXCEPT ![b] = "idle"]
    /\ UNCHANGED <<idx, lastOp, everOk, faults, damage, loc, locks, calls>>

\* a query thread: _load_rag_source constructs a RagIndex on the serving
\* directory of s and loads it
ReaderLoad(s) ==
    \E r \in { load(Uninitialized, fs[Srv(s)], EnvConfig, Srv(s), "none") } :
        /\ idx' = [cfg |-> EnvConfig, mem |-> r.mem]
        /\ fs' = [fs EXCEPT ![Srv(s)] = r.dir]
        /\ lastOp' = [op |-> "load", outcome |-> r.outcome,
                      encoded |-> r.encoded, rebuilt |-> r.rebuilt,
                      engines |-> {}, afterBuildOk |-> FALSE, afterRebuild |-> FALSE]
        /\ UNCHANGED <<everOk, faults, damage, svcVars>>

InitSource ==
    /\ \E served \in SUBSET Sids :
          fs = [p \in SourcePaths |->
                  IF p[2] = "srv" /\ p[1] \in served
                  THEN <<ServedDir(p[1])>> ELSE <<>>]
    /\ idx = [cfg |-> EnvConfig, mem |-> Uninitialized]
    /\ lastOp = NoOp
    /\ everOk = FALSE
    /\ faults = 0
    /\ damage = 0
    /\ InitService

NextSource ==
    \/ \E b \in Builders, s \in Sids, chunks \in ChunkLists :
          StartBuild(b, s, chunks)
    \/ \E b \in Builders : AcquireLock(b)
    \/ \E b \in Builders : PrepareTempDir(b)
    \/ \E b \in Builders, fail \in BuildFailPoints : BuildIndex(b, fail)
    \/ \E b \in Builders : SwapMoveTarget(b)
    \/ \E b \in Builders : SwapReplace(b)
    \/ \E b \in Builders, fail \in { "none", "save" } : SaveSource(b, fail)
    \/ \E b \in Builders, fail \in { "none", "source_meta" } :
          WriteMetadata(b, fail)
    \/ \E b \in Builders : OnCommit(b)
    \/ \E b \in Builders : HandleError(b)
    \/ \E b \in Builders : Finally(b)
    \/ \E s \in Sids : ReaderLoad(s)

SpecSource == InitSource /\ [][NextSource]_vars

\* ------------------------------------------------------ ranking: numbers

\* number of hits in a list a sub-engine hands to the merge and the fusion
MaxHits == 2

RECURSIVE GCD(_, _)
GCD(a, b) == IF b = 0 THEN a ELSE GCD(b, a % b)

Abs(n) == IF n < 0 THEN -n ELSE n

\* a float is a fraction <<numerator, denominator>> in lowest terms with a
\* positive denominator
Rat(n, d) ==
    LET g == GCD(Abs(n), Abs(d))
        sgn == IF d < 0 THEN -1 ELSE 1
    IN  <<sgn * (n \div g), sgn * (d \div g)>>

Zero == <<0, 1>>

One == <<1, 1>>

\* the arithmetic divides by common factors first, to keep the products small
RAdd(a, b) ==
    LET g == GCD(a[2], b[2])
    IN  Rat(a[1] * (b[2] \div g) + b[1] * (a[2] \div g), (a[2] \div g) * b[2])

RSub(a, b) == RAdd(a, <<-b[1], b[2]>>)

RMul(a, b) ==
    LET g == IF a[1] = 0 THEN 1 ELSE GCD(Abs(a[1]), b[2])
        h == IF b[1] = 0 THEN 1 ELSE GCD(Abs(b[1]), a[2])
    IN  Rat((a[1] \div g) * (b[1] \div h), (a[2] \div h) * (b[2] \div g))

RDiv(a, b) == RMul(a, <<b[2], b[1]>>)

RLess(a, b) ==
    LET g == GCD(a[2], b[2])
    IN  a[1] * (b[2] \div g) < b[1] * (a[2] \div g)

\* Python max(a, b) and min(a, b)
RMax(a, b) == IF RLess(a, b) THEN b ELSE a

RMin(a, b) == IF RLess(b, a) THEN b ELSE a

\* a dict is the sequence of its <<key, value>> items in insertion order
DictKeys(d) == { d[i][1] : i \in 1..Len(d) }

\* d.get(key, default)
DictGet(d, key, default) ==
    IF key \in DictKeys(d)
    THEN d[CHOOSE i \in 1..Len(d) : d[i][1] = key][2]
    ELSE default

\* d[key] = value: an existing key keeps its position
DictSet(d, key, value) ==
    IF key \in DictKeys(d)
    THEN [i \in 1..Len(d) |-> IF d[i][1] = key THEN <<key, value>> ELSE d[i]]
    ELSE Append(d, <<key, value>>)

\* a step of a descending sort that puts x in front of the items with its
\* score
InsertDesc_front(sorted, x) ==
    LET p == Cardinality({ i \in 1..Len(sorted) : RLess(x[2], sorted[i][2]) })
    IN  SubSeq(sorted, 1, p) \o <<x>> \o SubSeq(sorted, p + 1, Len(sorted))

\* one step of a stable descending sort: x goes behind every item whose
\* score is not smaller
InsertDesc(sorted, x) ==
    LET p == Cardinality({ i \in 1..Len(sorted) : ~RLess(sorted[i][2], x[2]) })
    IN  SubSeq(sorted, 1, p) \o <<x>> \o SubSeq(sorted, p + 1, Len(sorted))

\* sorted(items, key=lambda item: item[1], reverse=True)
RECURSIVE sorted_desc(_)
sorted_desc(items) ==
    IF items = <<>> THEN <<>>
    ELSE InsertDesc(sorted_desc(SubSeq(items, 1, Len(items) - 1)),
                    items[Len(items)])

\* ------------------------------------------------- ranking: merge and fuse

\* the loop over primary_hits of _merge_keyword_hits, from hit i on
RECURSIVE merge_primary(_, _, _)
merge_primary(scores, hits, i) ==
    IF i > Len(hits) THEN scores
    ELSE merge_primary(
             DictSet(scores, hits[i][1],
                     RMax(DictGet(scores, hits[i][1], Zero), hits[i][2])),
             hits, i + 1)

\* the boost of a fuzzy score, left out
boosted_none(score) == score

\* boosted = score * 1.1
boosted(score) == RMul(score, <<11, 10>>)

\* the loop over secondary_hits of _merge_keyword_hits, from hit i on
RECURSIVE merge_secondary(_, _, _)
merge_secondary(scores, hits, i) ==
    IF i > Len(hits) THEN scores
    ELSE merge_secondary(
             DictSet(scores, hits[i][1],
                     RMax(DictGet(scores, hits[i][1], Zero),
                          boosted(hits[i][2]))),
             hits, i + 1)

_merge_keyword_hits(primary_hits, secondary_hits) ==
    sorted_desc(merge_secondary(merge_primary(<<>>, primary_hits, 1),
                                secondary_hits, 1))

\* the smoothing constant of the fusion
rrf_k == 60

\* one loop of _fuse_results: every hit adds weight / (rrf_k + rank + 1) to
\* the score of its ordinal, rank counted from 0; i is rank + 1
RECURSIVE fuse_loop(_, _, _, _)
fuse_loop(scores, hits, weight, i) ==
    IF i > Len(hits) THEN scores
    ELSE fuse_loop(
             DictSet(scores, hits[i][1],
                     RAdd(DictGet(scores, hits[i][1], Zero),
                          RDiv(weight, <<rrf_k + (i - 1) + 1, 1>>))),
             hits, weight, i + 1)

\* the fusion with both lists weighted alike
_fuse_results_even(vector_hits, keyword_hits, fusion_weight) ==
    sorted_desc(fuse_loop(fuse_loop(<<>>, vector_hits, <<1, 2>>, 1),
                          keyword_hits, <<1, 2>>, 1))

_fuse_results(vector_hits, keyword_hits, fusion_weight) ==
    sorted_desc(fuse_loop(fuse_loop(<<>>, vector_hits, fusion_weight, 1),
                          keyword_hits, RSub(One, fusion_weight), 1))

\* the fusion weight taken as given
clamp_weight_none(fusion_weight) == fusion_weight

\* fusion_weight = min(max(fusion_weight, 0.0), 1.0)
clamp_weight(fusion_weight) == RMin(RMax(fusion_weight, Zero), One)

\* ------------------------------------------ ranking: the fusion on inputs

\* ordinals and scores of the hits handed to the merge and the fusion
HitOrdinals == { 0, 1, 2 }

\* BM25 scores, fuzzy scores before the boost, inner products
Bm25Scores == { <<0, 1>>, <<1, 1>>, <<11, 10>> }

FuzzyScores == { <<1, 2>>, <<1, 1>> }

VectorScores == { <<1, 2>>, <<9, 10>> }

\* what a sub-engine returns: distinct ordinals, best score first
IsHitList(hits) ==
    /\ \A i, j \in 1..Len(hits) : i < j =>
          /\ hits[i][1] # hits[j][1]
          /\ ~RLess(hits[i][2], hits[j][2])

HitListsOfLen(scores, n) ==
    { hits \in [1..n -> HitOrdinals \X scores] : IsHitList(hits) }

HitLists(scores) == UNION { HitListsOfLen(scores, n) : n \in 0..MaxHits }

\* the fuzzy engine is asked for k hits like the others; in the fusion it
\* is taken with at most one term match
FuzzyLists == HitListsOfLen(FuzzyScores, 0) \cup HitListsOfLen(FuzzyScores, 1)

\* the values of fusion_weight a caller passes
FusionWeights == { <<-1, 2>>, <<0, 1>>, <<1, 4>>, <<1, 1>>, <<3, 2>> }

\* the arguments of a call that has not run yet
MergeArgs ==
    { [op |-> "merge", done |-> FALSE, primary_hits |-> p, secondary_hits |-> q,
       merged |-> <<>>] : p \in HitLists(Bm25Scores), q \in HitLists(FuzzyScores) }

FuseArgs ==
    { [op |-> "fuse", done |-> FALSE, vector_hits |-> v, bm25_hits |-> p,
       inverted_hits |-> q, fusion_weight |-> w, keyword_hits |-> <<>>,
       fused |-> <<>>] :
      v \in HitLists(VectorScores), p \in HitLists(Bm25Scores),
      q \in FuzzyLists, w \in FusionWeights }

\* self._merge_keyword_hits(keyword_hits, inverted_hits) on its own
MergeCall ==
    /\ lastOp.op = "merge" /\ ~lastOp.done
    /\ lastOp' = [lastOp EXCEPT !.done = TRUE,
                    !.merged = _merge_keyword_hits(lastOp.primary_hits,
                                                   lastOp.secondary_hits)]
    /\ UNCHANGED <<fs, idx, everOk, faults, damage, svcVars>>

\* the ranking of search once the three engines have answered: the merge of
\* the keyword hits, the clamp of fusion_weight and the call of _fuse_results
FuseCall ==
    /\ lastOp.op = "fuse" /\ ~lastOp.done
    /\ \E keyword_hits \in { _merge_keyword_hits(lastOp.bm25_hits, lastOp.inverted_hits) } :
          lastOp' = [lastOp EXCEPT !.done = TRUE,
                       !.keyword_hits = keyword_hits,
                       !.fused = _fuse_results(lastOp.vector_hits, keyword_hits,
                                               clamp_weight(lastOp.fusion_weight))]
    /\ UNCHANGED <<fs, idx, everOk, faults, damage, svcVars>>

InitFusion ==
    /\ fs = [p \in Paths |-> <<>>]
    /\ idx = [cfg |-> DefaultConfig, mem |-> Uninitialized]
    /\ lastOp \in MergeArgs \cup FuseArgs
    /\ everOk = FALSE
    /\ faults = 0
    /\ damage = 0
    /\ InitService

NextFusion ==
    \/ MergeCall
    \/ FuseCall

SpecFusion == InitFusion /\ [][NextFusion]_vars

\* ------------------------------------------------------ embedding_cache.py

\* largest capacity of a cache and longest sequence of calls on it
MaxSize == 2

MaxOps == 4

\* str.strip() for the space character
RECURSIVE Strip(_)
Strip(query) ==
    IF query = <<>> THEN <<>>
    ELSE IF Head(query) = " " THEN Strip(Tail(query))
    ELSE IF query[Len(query)] = " " THEN Strip(SubSeq(query, 1, Len(query) - 1))
    ELSE query

\* InMemoryEmbeddingCache(max_size) after __post_init__
InMemoryEmbeddingCache(max_size) == [max_size |-> max_size, entries |-> <<>>]

\* OrderedDict.move_to_end(key) for a key that is present
move_to_end(entries, key) ==
    SelectSeq(entries, LAMBDA item : item[1] # key) \o
    SelectSeq(entries, LAMBDA item : item[1] = key)

\* get: the stored embedding as value, none on a miss; a hit moves the entry
\* to the end
cache_get(cache, query) ==
    LET key == Strip(query)
    IN  IF key = <<>> \/ key \notin DictKeys(cache.entries)
        THEN [cache |-> cache, value |-> <<>>]
        ELSE [cache |-> [cache EXCEPT !.entries = move_to_end(@, key)],
              value |-> << DictGet(cache.entries, key, <<>>) >>]

\* the eviction of set, left out
evict_none(entries, max_size) == entries

\* if len(self._entries) > self.max_size: self._entries.popitem(last=False)
evict(entries, max_size) ==
    IF Len(entries) > max_size THEN Tail(entries) ELSE entries

cache_set(cache, query, embedding) ==
    LET key == Strip(query)
    IN  IF key = <<>> THEN cache
        ELSE [cache EXCEPT !.entries =
                evict(move_to_end(DictSet(@, key, embedding), key), cache.max_size)]

\* queries and embeddings handed to the cache
CacheQueries == { <<" ">>, <<"a">>, <<" ", "b">>, <<"c">> }

CacheEmbedding == "v"

\* a get call; the log of lastOp keeps the calls made so far
CacheGet(query) ==
    /\ Len(lastOp.log) < MaxOps
    /\ \E r \in { cache_get(idx.cache, query) } :
          /\ idx' = [idx EXCEPT !.cache = r.cache]
          /\ lastOp' = [op |-> "get", query |-> query, value |-> r.value,
                        log |-> Append(lastOp.log,
                                       [op |-> "get", key |-> Strip(query),
                                        hit |-> r.value # <<>>])]
    /\ UNCHANGED <<fs, everOk, faults, damage, svcVars>>

\* a set call
CacheSet(query) ==
    /\ Len(lastOp.log) < MaxOps
    /\ idx' = [idx EXCEPT !.cache = cache_set(@, query, CacheEmbedding)]
    /\ lastOp' = [op |-> "set", query |-> query, value |-> <<>>,
                  log |-> Append(lastOp.log,
                                 [op |-> "set", key |-> Strip(query),
                                  hit |-> FALSE])]
    /\ UNCHANGED <<fs, everOk, faults, damage, svcVars>>

InitCache ==
    /\ fs = [p \in Paths |-> <<>>]
    /\ \E max_size \in 0..MaxSize :
          idx = [cfg |-> DefaultConfig, mem |-> Uninitialized,
                 cache |-> InMemoryEmbeddingCache(max_size)]
    /\ lastOp = [op |-> "init", query |-> <<>>, value |-> <<>>, log |-> <<>>]
    /\ everOk = FALSE
    /\ faults = 0
    /\ damage = 0
    /\ InitService

NextCache ==
    \/ \E query \in CacheQueries : CacheGet(query)
    \/ \E query \in CacheQueries : CacheSet(query)

SpecCache == InitCache /\ [][NextCache]_vars

\* ------------------------------------------------------------------ search

\* largest k of a search
MaxK == 2

\* ln(x) for the fractions x under the logarithm of an idf of a corpus of up
\* to three documents, to three decimals
Ln(frac) ==
    CASE frac = <<4, 3>> -> <<288, 1000>>
      [] frac = <<6, 3>> -> <<693, 1000>>
      [] frac = <<6, 5>> -> <<182, 1000>>
      [] frac = <<8, 3>> -> <<981, 1000>>
      [] frac = <<8, 5>> -> <<470, 1000>>
      [] frac = <<8, 7>> -> <<134, 1000>>

\* a summand whose numerator leaves the term frequency out
score_term_no_freq(kw, doc_tokens, doc_len, token) ==
    LET freq == Cardinality({ i \in 1..Len(doc_tokens) : doc_tokens[i] = token })
        idf == IF token \in DOMAIN kw.idf THEN Rat(Ln(kw.idf[token])[1], Ln(kw.idf[token])[2]) ELSE Zero
        avgdl == IF kw.avgdl[1] = 0 THEN One ELSE Rat(kw.avgdl[1], kw.avgdl[2])
        denominator == RAdd(<<freq, 1>>,
                            RMul(kw.k1, RAdd(RSub(One, kw.b),
                                             RMul(kw.b, RDiv(<<doc_len, 1>>, avgdl)))))
    IN  IF freq = 0 THEN Zero ELSE RDiv(RMul(idf, RAdd(kw.k1, One)), denominator)

\* the summand of _score_doc for the query token at position j
score_term(kw, doc_tokens, doc_len, token) ==
    LET freq == Cardinality({ i \in 1..Len(doc_tokens) : doc_tokens[i] = token })
        idf == IF token \in DOMAIN kw.idf THEN Rat(Ln(kw.idf[token])[1], Ln(kw.idf[token])[2]) ELSE Zero
        avgdl == IF kw.avgdl[1] = 0 THEN One ELSE Rat(kw.avgdl[1], kw.avgdl[2])
        numerator == RMul(<<freq, 1>>, RAdd(kw.k1, One))
        denominator == RAdd(<<freq, 1>>,
                            RMul(kw.k1, RAdd(RSub(One, kw.b),
                                             RMul(kw.b, RDiv(<<doc_len, 1>>, avgdl)))))
    IN  IF freq = 0 THEN Zero ELSE RDiv(RMul(idf, numerator), denominator)

RECURSIVE score_sum(_, _, _, _, _)
score_sum(kw, doc_tokens, doc_len, query_tokens, j) ==
    IF j > Len(query_tokens) THEN Zero
    ELSE RAdd(score_term(kw, doc_tokens, doc_len, query_tokens[j]),
              score_sum(kw, doc_tokens, doc_len, query_tokens, j + 1))

\* KeywordIndex._score_doc; doc_id counts from 0
_score_doc(kw, doc_tokens, query_tokens, doc_id) ==
    LET doc_len == IF doc_id < Len(kw.doc_lengths) THEN kw.doc_lengths[doc_id + 1]
                   ELSE Len(doc_tokens)
    IN  IF doc_len = 0 THEN Zero
        ELSE score_sum(kw, doc_tokens, doc_len, query_tokens, 1)

\* a keyword search without the test for an empty query or corpus
KeywordIndexSearch_unguarded(kw, query, k) ==
    LET query_tokens == _tokenize(query)
        scores == [i \in 1..Len(kw.tokenized_docs) |->
                     <<i - 1, _score_doc(kw, kw.tokenized_docs[i], query_tokens, i - 1)>>]
        sorted_scores == sorted_desc(scores)
    IN  SubSeq(sorted_scores, 1, IF k < Len(sorted_scores) THEN k ELSE Len(sorted_scores))

\* a keyword search that returns only the documents with a positive score
KeywordIndexSearch_matching(kw, query, k) ==
    LET query_tokens == _tokenize(query)
        scores == [i \in 1..Len(kw.tokenized_docs) |->
                     <<i - 1, _score_doc(kw, kw.tokenized_docs[i], query_tokens, i - 1)>>]
        sorted_scores == sorted_desc(SelectSeq(scores, LAMBDA h : RLess(Zero, h[2])))
    IN  IF query_tokens = <<>> \/ kw.tokenized_docs = <<>> THEN <<>>
        ELSE SubSeq(sorted_scores, 1, IF k < Len(sorted_scores) THEN k ELSE Len(sorted_scores))

\* KeywordIndex.search: every document is scored, also with 0
KeywordIndexSearch(kw, query, k) ==
    LET query_tokens == _tokenize(query)
        scores == [i \in 1..Len(kw.tokenized_docs) |->
                     <<i - 1, _score_doc(kw, kw.tokenized_docs[i], query_tokens, i - 1)>>]
        sorted_scores == sorted_desc(scores)
    IN  IF query_tokens = <<>> \/ kw.tokenized_docs = <<>> THEN <<>>
        ELSE SubSeq(sorted_scores, 1, IF k < Len(sorted_scores) THEN k ELSE Len(sorted_scores))

\* InvertedIndex.search: the stored documents that share a term with the
\* query, each with the score the BM25F weighting gives it, best first, at
\* most limit of them
InvertedIndexSearch(dirOpt, query, limit, score) ==
    IF Strip(query) = <<>> \/ ~from_dir_exists(dirOpt) THEN <<>>
    ELSE LET content == dirOpt[1].whoosh[1].content
             matched == SelectSeq([i \in 1..Len(content) |-> <<i - 1, score>>],
                                  LAMBDA h : TokenSet(_tokenize(content[h[1] + 1])) \cap TokenSet(_tokenize(query)) # {})
         IN  SubSeq(matched, 1, IF limit < Len(matched) THEN limit ELSE Len(matched))

\* faiss index.search(query_emb, k): the labels of the k nearest vectors in
\* the order of their inner products, filled up with -1, and the scores
IndexSearch(index, order, k) ==
    [j \in 1..k |-> IF j <= Len(index.vecs) THEN <<order[j], Rat(10 - j, 10)>>
                    ELSE <<-1, <<-1000, 1>> >>]

\* a label is kept whatever it is
keep_label_all(label) == TRUE

\* if idx < 0: continue
keep_label(label) == ~(label < 0)

\* a miss that leaves the cache alone
store_on_miss_never(cache, query, cached) == cache

\* self._embedding_cache.set(query, cached)
store_on_miss(cache, query, cached) == cache_set(cache, query, cached)

_search_vectors(cache, model, index, query, k, order) ==
    LET got == cache_get(cache, query)
        miss == got.value = <<>>
        cached == IF miss THEN Encode(model, <<query>>)[1] ELSE got.value[1]
    IN  [cache |-> IF miss THEN store_on_miss(got.cache, query, cached) ELSE got.cache,
         miss |-> miss,
         encoded |-> IF miss THEN 1 ELSE 0,
         query_emb |-> cached,
         labels |-> IndexSearch(index, order, k),
         hits |-> SelectSeq(IndexSearch(index, order, k), LAMBDA h : keep_label(h[1]))]

\* the test of the bounds first, then the cut at k
search_results_filter_first(docs, fused, k) ==
    LET kept == SelectSeq(fused, LAMBDA h : 0 <= h[1] /\ h[1] < Len(docs))
    IN  SubSeq(kept, 1, IF k < Len(kept) THEN k ELSE Len(kept))

\* lines 279-283 of search: the cut at k, then the test of the bounds
search_results(docs, fused, k) ==
    SelectSeq(SubSeq(fused, 1, IF k < Len(fused) THEN k ELSE Len(fused)),
              LAMBDA h : 0 <= h[1] /\ h[1] < Len(docs))

\* the corpus of the fusion example, and a corpus of one document
ExampleCorpus ==
    << <<"t", "h", "e", " ", "c", "a", "t", " ", "s", "a", "t">>,
       <<"t", "h", "e", " ", "d", "o", "g", " ", "r", "a", "n">>,
       <<"c", "a", "t", "s", " ", "a", "n", "d", " ", "d", "o", "g", "s">> >>

OneDocCorpus == << <<"a">> >>

TwoDocCorpus == << <<"A", " ", "b">>, <<"a">> >>

\* READY instances with their directory: built over a corpus, or loaded from
\* a directory in which a rebuild over another corpus failed after it had
\* written the dense index
SearchInstances ==
    LET built(texts) == build_nonempty(Uninitialized, <<>>, DefaultConfig, DataDir, texts, "none")
        stale == build_nonempty(Uninitialized, built(OneDocCorpus).dir, DefaultConfig, DataDir, TwoDocCorpus, "docs").dir
    IN  { [mem |-> built(ExampleCorpus).mem, dir |-> built(ExampleCorpus).dir],
          [mem |-> built(OneDocCorpus).mem, dir |-> built(OneDocCorpus).dir],
          [mem |-> load(Uninitialized, stale, DefaultConfig, DataDir, "none").mem, dir |-> stale] }

SearchQueries ==
    { <<"c", "a", "t">>, <<" ", "c", "a", "t">>, <<" ">>, <<"a">> }

SearchWeights == { <<0, 1>>, <<1, 2>>, <<1, 1>> }

\* the orders in which an index of n vectors can rank them for a query
DenseOrders(n) ==
    IF n = 1 THEN { <<0>> }
    ELSE IF n = 2 THEN { <<0, 1>>, <<1, 0>> }
    ELSE { <<0, 2, 1>>, <<1, 0, 2>>, <<2, 1, 0>> }

\* RagIndex.search(query, k, fusion_weight) on the instance; k and
\* fusion_weight are those of the caller, kept in lastOp.  faiss and Whoosh
\* are not part of the repository: that they answer a request for 0 hits
\* with nothing, or refuse it, are both taken as possible.
SearchQuery(query, order, score, refuse) ==
    /\ search(idx.mem).outcome = "ok"
    /\ refuse => lastOp.k = 0
    /\ \E v \in { _search_vectors(idx.cache, idx.cfg.model, idx.mem.index[1], query, lastOp.k, order) } :
       \E bm25_hits \in { KeywordIndexSearch(idx.mem.keyword_index[1], query, lastOp.k) } :
       \E inverted_hits \in { InvertedIndexSearch(fs[DataDir], query, lastOp.k, score) } :
       \E keyword_hits \in { _merge_keyword_hits(bm25_hits, inverted_hits) } :
       \E fused \in { _fuse_results(v.hits, keyword_hits, clamp_weight(lastOp.fusion_weight)) } :
         /\ idx' = [idx EXCEPT !.cache = v.cache]
         /\ lastOp' = [op |-> "search", k |-> lastOp.k,
                       fusion_weight |-> lastOp.fusion_weight,
                       outcome |-> IF refuse THEN "AssertionError" ELSE "ok",
                       query |-> query, miss |-> v.miss, encoded |-> v.encoded,
                       labels |-> v.labels, vector_hits |-> v.hits,
                       bm25_hits |-> IF refuse THEN <<>> ELSE bm25_hits,
                       inverted_hits |-> IF refuse THEN <<>> ELSE inverted_hits,
                       keyword_hits |-> IF refuse THEN <<>> ELSE keyword_hits,
                       fused |-> IF refuse THEN <<>> ELSE fused,
                       results |-> IF refuse THEN <<>>
                                   ELSE [i \in 1..Len(search_results(idx.mem.docs, fused, lastOp.k)) |->
                                           <<idx.mem.docs[search_results(idx.mem.docs, fused, lastOp.k)[i][1] + 1],
                                             search_results(idx.mem.docs, fused, lastOp.k)[i][2]>>],
                       ordinals |-> IF refuse THEN <<>>
                                    ELSE [i \in 1..Len(search_results(idx.mem.docs, fused, lastOp.k)) |->
                                            search_results(idx.mem.docs, fused, lastOp.k)[i][1]]]
    /\ UNCHANGED <<fs, everOk, faults, damage, svcVars>>

InitSearch ==
    /\ \E inst \in SearchInstances :
          /\ fs = [p \in Paths |-> IF p = DataDir THEN inst.dir ELSE <<>>]
          /\ idx = [cfg |-> DefaultConfig, mem |-> inst.mem,
                    cache |-> InMemoryEmbeddingCache(512)]
    /\ \E k \in 0..MaxK, fusion_weight \in SearchWeights :
          lastOp = [op |-> "init", k |-> k, fusion_weight |-> fusion_weight]
    /\ everOk = FALSE
    /\ faults = 0
    /\ damage = 0
    /\ InitService

NextSearch ==
    \E query \in SearchQueries, score \in FuzzyScores, refuse \in BOOLEAN :
      \E order \in DenseOrders(Len(idx.mem.index[1].vecs)) :
        SearchQuery(query, order, score, refuse)

SpecSearch == InitSearch /\ [][NextSearch]_vars

\* ------------------------------------------ the lexical engines on inputs

\* documents, corpora of up to three of them, and queries
LexDocs ==
    { <<>>, <<"a">>, <<"b">>, <<"a", " ", "b">>, <<"a", " ", "a", " ", "b">> }

LexCorpora == UNION { [1..n -> LexDocs] : n \in 0..3 }

LexQueries ==
    { <<>>, <<" ">>, <<"a">>, <<"b">>, <<"B", " ", "a">>, <<"c">> }

\* KeywordIndex.build(texts) followed by search(query, k)
KeywordSearchCall ==
    /\ lastOp.op = "keyword_search" /\ ~lastOp.done
    /\ lastOp' = [lastOp EXCEPT !.done = TRUE,
                    !.hits = KeywordIndexSearch(KeywordIndexBuild(lastOp.texts),
                                                lastOp.query, lastOp.k)]
    /\ UNCHANGED <<fs, idx, everOk, faults, damage, svcVars>>

\* InvertedIndex(root_dir).search(query, limit) on a directory that holds
\* the fuzzy index of lastOp.texts, or none
InvertedSearchCall ==
    /\ lastOp.op = "inverted_search" /\ ~lastOp.done
    /\ lastOp' = [lastOp EXCEPT !.done = TRUE,
                    !.hits = InvertedIndexSearch(
                                 IF lastOp.exists
                                 THEN <<[EmptyDir EXCEPT !.whoosh = <<InvertedIndexBuild(lastOp.texts)>>]>>
                                 ELSE <<>>,
                                 lastOp.query, lastOp.k, lastOp.score)]
    /\ UNCHANGED <<fs, idx, everOk, faults, damage, svcVars>>

InitLexical ==
    /\ fs = [p \in Paths |-> <<>>]
    /\ idx = [cfg |-> DefaultConfig, mem |-> Uninitialized]
    /\ \/ \E texts \in LexCorpora, query \in LexQueries, k \in 0..MaxK :
            lastOp = [op |-> "keyword_search", done |-> FALSE, texts |-> texts,
                      query |-> query, k |-> k, hits |-> <<>>]
       \/ \E texts \in LexCorpora, query \in LexQueries, k \in 1..MaxK,
              exists \in BOOLEAN, score \in FuzzyScores :
            lastOp = [op |-> "inverted_search", done |-> FALSE, texts |-> texts,
                      query |-> query, k |-> k, exists |-> exists,
                      score |-> score, hits |-> <<>>]
    /\ everOk = FALSE
    /\ faults = 0
    /\ damage = 0
    /\ InitService

NextLexical ==
    \/ KeywordSearchCall
    \/ InvertedSearchCall

SpecLexical == InitLexical /\ [][NextLexical]_vars

\* ------------------------------------------- searches of request threads

\* number of search calls that the request threads make together
MaxSearches == 3

\* request threads that share one RagIndex, and what they search for
Threads == { "t1", "t2" }

ThreadQueries == { <<"a">>, <<"b">> }

\* the locals of a thread that is not in a call
IdleThread == [query |-> <<>>, embedding |-> <<>>, outcome |-> ""]

\* a request thread calls search(query) on the shared instance; the guard of
\* search has passed and _search_vectors calls self._embedding_cache.get
search_begin(t, query) ==
    /\ pc[t] = "idle"
    /\ calls < MaxSearches
    /\ search(idx.mem).outcome = "ok"
    /\ pc' = [pc EXCEPT ![t] = "get_lookup"]
    /\ loc' = [loc EXCEPT ![t] = [IdleThread EXCEPT !.query = query]]
    /\ calls' = calls + 1
    /\ UNCHANGED <<fs, idx, lastOp, everOk, faults, damage, locks>>

\* get: key = query.strip(); embedding = self._entries.get(key)
get_lookup(t) ==
    /\ pc[t] = "get_lookup"
    /\ LET key == Strip(loc[t].query)
           found == key # <<>> /\ key \in DictKeys(idx.cache.entries)
       IN  /\ pc' = [pc EXCEPT ![t] = IF found THEN "get_move_to_end" ELSE "encode"]
           /\ loc' = [loc EXCEPT ![t].embedding =
                         IF found THEN << DictGet(idx.cache.entries, key, <<>>) >> ELSE <<>>]
    /\ UNCHANGED <<fs, idx, lastOp, everOk, faults, damage, locks, calls>>

\* get: self._entries.move_to_end(key), a KeyError when the key is gone
get_move_to_end(t) ==
    /\ pc[t] = "get_move_to_end"
    /\ IF Strip(loc[t].query) \in DictKeys(idx.cache.entries)
       THEN /\ idx' = [idx EXCEPT !.cache.entries = move_to_end(@, Strip(loc[t].query))]
            /\ pc' = [pc EXCEPT ![t] = "rank"]
            /\ loc' = loc
       ELSE /\ idx' = idx
            /\ pc' = [pc EXCEPT ![t] = "done"]
            /\ loc' = [loc EXCEPT ![t].outcome = "KeyError"]
    /\ UNCHANGED <<fs, lastOp, everOk, faults, damage, locks, calls>>

\* the miss: encoded = self._model.encode([query], ...)
encode_query(t) ==
    /\ pc[t] = "encode"
    /\ pc' = [pc EXCEPT ![t] = "set_assign"]
    /\ loc' = [loc EXCEPT ![t].embedding = << Encode(idx.cfg.model, <<loc[t].query>>)[1] >>]
    /\ UNCHANGED <<fs, idx, lastOp, everOk, faults, damage, locks, calls>>

\* set: self._entries[key] = embedding, nothing for a blank key
set_assign(t) ==
    /\ pc[t] = "set_assign"
    /\ IF Strip(loc[t].query) = <<>>
       THEN /\ idx' = idx
            /\ pc' = [pc EXCEPT ![t] = "rank"]
       ELSE /\ idx' = [idx EXCEPT !.cache.entries =
                         DictSet(@, Strip(loc[t].query), loc[t].embedding[1])]
            /\ pc' = [pc EXCEPT ![t] = "set_move_to_end"]
    /\ UNCHANGED <<fs, lastOp, everOk, faults, damage, locks, calls, loc>>

\* set: self._entries.move_to_end(key), a KeyError when the key is gone
set_move_to_end(t) ==
    /\ pc[t] = "set_move_to_end"
    /\ IF Strip(loc[t].query) \in DictKeys(idx.cache.entries)
       THEN /\ idx' = [idx EXCEPT !.cache.entries = move_to_end(@, Strip(loc[t].query))]
            /\ pc' = [pc EXCEPT ![t] = "set_popitem"]
            /\ loc' = loc
       ELSE /\ idx' = idx
            /\ pc' = [pc EXCEPT ![t] = "done"]
            /\ loc' = [loc EXCEPT ![t].outcome = "KeyError"]
    /\ UNCHANGED <<fs, lastOp, everOk, faults, damage, locks, calls>>

\* set: the eviction when the cache is over its capacity
set_popitem(t) ==
    /\ pc[t] = "set_popitem"
    /\ idx' = [idx EXCEPT !.cache.entries = evict(@, idx.cache.max_size)]
    /\ pc' = [pc EXCEPT ![t] = "rank"]
    /\ UNCHANGED <<fs, lastOp, everOk, faults, damage, locks, calls, loc>>

\* the rest of search: the three engines, the merge, the fusion and the cut
\* read the index structures and return
search_rank(t) ==
    /\ pc[t] = "rank"
    /\ pc' = [pc EXCEPT ![t] = "done"]
    /\ loc' = [loc EXCEPT ![t].outcome = "ok"]
    /\ UNCHANGED <<fs, idx, lastOp, everOk, faults, damage, locks, calls>>

\* the request is answered and the thread takes the next one
search_return(t) ==
    /\ pc[t] = "done"
    /\ pc' = [pc EXCEPT ![t] = "idle"]
    /\ loc' = [loc EXCEPT ![t] = IdleThread]
    /\ UNCHANGED <<fs, idx, lastOp, everOk, faults, damage, locks, calls>>

InitThreads ==
    /\ \E inst \in SearchInstances, max_size \in 1..MaxSize :
          /\ fs = [p \in Paths |-> IF p = DataDir THEN inst.dir ELSE <<>>]
          /\ idx = [cfg |-> DefaultConfig, mem |-> inst.mem,
                    cache |-> InMemoryEmbeddingCache(max_size)]
    /\ lastOp = [op |-> "init"]
    /\ everOk = FALSE
    /\ faults = 0
    /\ damage = 0
    /\ pc = [t \in Threads |-> "idle"]
    /\ loc = [t \in Threads |-> IdleThread]
    /\ locks = [s \in Sids |-> <<>>]
    /\ calls = 0

NextThreads ==
    \E t \in Threads :
      \/ \E query \in ThreadQueries : search_begin(t, query)
      \/ get_lookup(t)
      \/ get_move_to_end(t)
      \/ encode_query(t)
      \/ set_assign(t)
      \/ set_move_to_end(t)
      \/ set_popitem(t)
      \/ search_rank(t)
      \/ search_return(t)

SpecThreads == InitThreads /\ [][NextThreads]_vars

\* ------------------------------------------------- the embedding provider

MaxEmbeds == 2

\* "nomic" in config.embedding_model_name
is_nomic(name) == name = "nomic-embed"

\* SentenceTransformer(name, **model_kwargs) called once per name in names,
\* in order, until a call returns: ctor[n] tells whether the n-th call of
\* the process returns a model
construct_each(names, model_kwargs, ctor) ==
    LET n == IF \E i \in 1..Len(names) : ctor[i]
             THEN CHOOSE i \in 1..Len(names) : ctor[i] /\ \A j \in 1..(i - 1) : ~ctor[j]
             ELSE Len(names)
    IN  [model |-> IF ctor[n] THEN <<names[n]>> ELSE <<>>,
         constructed |-> [i \in 1..n |-> <<names[i], model_kwargs>>]]

\* a loader that constructs the fallback whatever the primary did
_load_model_with_fallback_both(config, model_kwargs, ctor) ==
    LET r == construct_each(<<config.fallback>>, model_kwargs, Tail(ctor))
    IN  [model |-> IF ctor[1] THEN <<config.primary>> ELSE r.model,
         constructed |-> <<<<config.primary, model_kwargs>>>> \o r.constructed]

\* RagIndex._load_model_with_fallback(model_kwargs)
_load_model_with_fallback(config, model_kwargs, ctor) ==
    IF config.fallback = config.primary
    THEN construct_each(<<config.primary>>, model_kwargs, ctor)
    ELSE construct_each(<<config.primary, config.fallback>>, model_kwargs, ctor)

\* RagIndex.__init__ up to the assignment of self._model: an index that
\* holds a model, or the exception of the dependency check or of the loader
RagIndexModel(config, sentencepiece, ctor) ==
    LET kwargs0 == config.model_kwargs
        nomic == is_nomic(config.primary)
        model_kwargs == IF nomic /\ "trust_remote_code" \notin DictKeys(kwargs0)
                        THEN DictSet(kwargs0, "trust_remote_code", TRUE)
                        ELSE kwargs0
        r == _load_model_with_fallback(config, model_kwargs, ctor)
    IN  IF nomic /\ ~sentencepiece
        THEN [model |-> <<>>, constructed |-> <<>>, error |-> "ImportError"]
        ELSE [model |-> r.model, constructed |-> r.constructed,
              error |-> IF r.model = <<>> THEN "OSError" ELSE "none"]

\* RagIndex(config)
ConstructIndex ==
    /\ lastOp.op = "config"
    /\ LET r == RagIndexModel(lastOp.config, lastOp.sentencepiece, lastOp.ctor)
       IN  lastOp' = [lastOp EXCEPT !.op = "RagIndex", !.model = r.model,
                        !.constructed = r.constructed, !.error = r.error]
    /\ UNCHANGED <<fs, idx, everOk, faults, damage, svcVars>>

\* self._model.encode(...) of one call of site: the model of the index
\* embeds, and an exception of the model leaves the call
embed(site, fails) ==
    /\ lastOp.op # "config" /\ lastOp.model # <<>>
    /\ lastOp.embeds < MaxEmbeds
    /\ lastOp' = [lastOp EXCEPT !.op = site, !.embeds = @ + 1,
                    !.encoded = <<[model |-> lastOp.model[1], ok |-> ~fails]>>,
                    !.error = IF fails THEN "RuntimeError" ELSE "none"]
    /\ UNCHANGED <<fs, idx, everOk, faults, damage, svcVars>>

\* the documents embedded by build_from_texts or by the rebuild of load
EmbedDocuments ==
    \E site \in { "build_from_texts", "_rebuild_index_from_docs" }, fails \in BOOLEAN :
        embed(site, fails)

\* the query embedded by search on a cache miss
EmbedQuery == \E fails \in BOOLEAN : embed("_search_vectors", fails)

InitProvider ==
    /\ fs = [p \in Paths |-> <<>>]
    /\ idx = [cfg |-> DefaultConfig, mem |-> Uninitialized]
    /\ \E primary \in { "nomic-embed", "minilm" }, fallback \in { "nomic-embed", "minilm", "mpnet" },
          kwargs \in { <<>>, << <<"device", "cpu">> >>, << <<"trust_remote_code", FALSE>> >> },
          sentencepiece \in BOOLEAN, ctor \in [1..2 -> BOOLEAN] :
         lastOp = [op |-> "config",
                   config |-> [primary |-> primary, fallback |-> fallback, model_kwargs |-> kwargs],
                   sentencepiece |-> sentencepiece, ctor |-> ctor,
                   model |-> <<>>, constructed |-> <<>>, error |-> "none",
                   embeds |-> 0, encoded |-> <<>>]
    /\ everOk = FALSE
    /\ faults = 0
    /\ damage = 0
    /\ InitService

NextProvider ==
    \/ ConstructIndex
    \/ EmbedDocuments
    \/ EmbedQuery

SpecProvider == InitProvider /\ [][NextProvider]_vars

\* ---------------------------------------------------------- build_runner.py

MaxStarts == 2

\* threads of requests that call start_build
Requesters == { "q1", "q2" }

\* the run of the management command, and the workers start_build spawns
CommandRun == 0

Workers == 1..MaxStarts

\* the directory of the source the management command creates
CommandDir == <<"cmd", "srv">>

\* BuildProgress()
IdleProgress ==
    [status |-> "idle", percent |-> 0, message |-> "No build started.",
     root |-> <<>>, errors |-> ""]

\* a with self._lock block can be entered
tracker_lock_ignored(holder) == TRUE

tracker_lock_free(holder) == holder = <<>>

\* _ProgressTracker.update
tracker_update(p, message, percent) == [p EXCEPT !.percent = percent, !.message = message]

\* a fail that records the message and leaves the status
tracker_fail_silent(p, message) == [p EXCEPT !.message = message, !.errors = message]

\* _ProgressTracker.fail
tracker_fail(p, message) == [p EXCEPT !.status = "error", !.message = message, !.errors = message]

\* index_path.exists()
index_exists(dirOpt) == dirOpt # <<>> /\ dirOpt[1].index # <<>>

\* the reason of an abort when an existing index is never looked for
abort_reason_forced(chunks, exists, force) ==
    IF chunks = <<>> THEN "No code chunks found, aborting." ELSE ""

\* the message a build entry point aborts with before it builds, "" if it
\* goes on to build
abort_reason(chunks, exists, force) ==
    IF chunks = <<>> THEN "No code chunks found, aborting."
    ELSE IF exists /\ ~force THEN "Index already exists. Use --force to rebuild."
    ELSE ""

\* the locals of an entry point that has not run
Unborn ==
    [pc |-> "unborn", root |-> "", force |-> FALSE, chunks |-> <<>>,
     existed |-> FALSE, built |-> FALSE, report |-> "", at_start |-> <<>>]

\* _tracker.start: entering the with block
StartAcquire(q, force) ==
    /\ pc[q].at = "idle"
    /\ loc[CommandRun].pc = "unborn"
    /\ calls + Cardinality({ o \in Requesters : pc[o].at # "idle" }) < MaxStarts
    /\ tracker_lock_free(locks)
    /\ locks' = <<q>>
    /\ pc' = [pc EXCEPT ![q] = [at |-> "check", force |-> force]]
    /\ UNCHANGED <<fs, idx, lastOp, everOk, faults, damage, loc, calls>>

\* _tracker.start: the test of the status; BuildInProgressError leaves the
\* with block and start_build
StartCheck(q) ==
    /\ pc[q].at = "check"
    /\ IF idx.status = "running"
       THEN /\ pc' = [pc EXCEPT ![q].at = "idle"]
            /\ locks' = <<>>
            /\ lastOp' = [op |-> "start_build", by |-> q, outcome |-> "BuildInProgressError"]
       ELSE /\ pc' = [pc EXCEPT ![q].at = "set"]
            /\ UNCHANGED <<locks, lastOp>>
    /\ UNCHANGED <<fs, idx, everOk, faults, damage, loc, calls>>

\* _tracker.start: the assignment of the running progress, leaving the with
\* block
StartSet(q) ==
    /\ pc[q].at = "set"
    /\ idx' = [status |-> "running", percent |-> 5, message |-> "Preparing build",
               root |-> <<q>>, errors |-> ""]
    /\ locks' = <<>>
    /\ pc' = [pc EXCEPT ![q].at = "spawn"]
    /\ lastOp' = [op |-> "start", by |-> q, outcome |-> "running"]
    /\ UNCHANGED <<fs, everOk, faults, damage, loc, calls>>

\* start_build: thread.start() and the return of the snapshot
ThreadStart(q) ==
    /\ pc[q].at = "spawn"
    /\ calls' = calls + 1
    /\ loc' = [loc EXCEPT ![calls + 1] = [Unborn EXCEPT !.pc = "update", !.root = q,
                                           !.force = pc[q].force, !.at_start = fs[DataDir]]]
    /\ pc' = [pc EXCEPT ![q].at = "idle"]
    /\ lastOp' = [op |-> "start_build", by |-> q, outcome |-> "ok"]
    /\ UNCHANGED <<fs, idx, everOk, faults, damage, locks>>

\* _execute_build: the first update
ExecUpdate(w) ==
    /\ loc[w].pc = "update"
    /\ tracker_lock_free(locks)
    /\ idx' = tracker_update(idx, "Collecting code", 10)
    /\ loc' = [loc EXCEPT ![w].pc = "collect"]
    /\ UNCHANGED <<fs, lastOp, everOk, faults, damage, pc, locks, calls>>

\* _execute_build: collect_code_chunks and the test of the chunks
ExecCollect(w, chunks) ==
    /\ loc[w].pc = "collect"
    /\ tracker_lock_free(locks)
    /\ LET why == abort_reason(chunks, FALSE, TRUE)
       IN  /\ idx' = IF why # "" THEN tracker_fail(idx, why)
                     ELSE tracker_update(idx, "Configuring RAG index...", 30)
           /\ loc' = [loc EXCEPT ![w].chunks = chunks, ![w].report = why,
                                 ![w].pc = IF why # "" THEN "done" ELSE "configure"]
    /\ UNCHANGED <<fs, lastOp, everOk, faults, damage, pc, locks, calls>>

\* _execute_build: the config and the test of the index file
ExecConfigure(w) ==
    /\ loc[w].pc = "configure"
    /\ tracker_lock_free(locks)
    /\ LET exists == index_exists(fs[DataDir])
           why == abort_reason(loc[w].chunks, exists, loc[w].force)
       IN  /\ idx' = IF why # "" THEN tracker_fail(idx, why)
                     ELSE tracker_update(idx, "Embedding code chunks and writing index...", 60)
           /\ loc' = [loc EXCEPT ![w].existed = exists, ![w].report = why,
                                 ![w].pc = IF why # "" THEN "done" ELSE "build"]
    /\ UNCHANGED <<fs, lastOp, everOk, faults, damage, pc, locks, calls>>

\* _execute_build: RagIndex(config).build_from_texts(chunks)
ExecBuild(w, fail) ==
    /\ loc[w].pc = "build"
    /\ CanFail(fail)
    /\ LET r == build_from_texts(Uninitialized, fs[DataDir], EnvConfig, DataDir, loc[w].chunks, fail)
       IN  /\ Reaches(fail, r.hit)
           /\ fs' = [fs EXCEPT ![DataDir] = r.dir]
           /\ faults' = IF r.hit THEN faults + 1 ELSE faults
           /\ loc' = [loc EXCEPT ![w].built = TRUE,
                                 ![w].pc = IF r.outcome = "ok" THEN "complete" ELSE "except"]
    /\ UNCHANGED <<idx, lastOp, everOk, damage, pc, locks, calls>>

\* _execute_build: save_last_root and _tracker.complete, or _tracker.fail of
\* the except branch, which a failing write of the state file also reaches
ExecFinish(w, fail) ==
    /\ loc[w].pc \in { "complete", "except" }
    /\ fail = "none" \/ (loc[w].pc = "complete" /\ faults < MaxFaults)
    /\ tracker_lock_free(locks)
    /\ idx' = IF loc[w].pc = "complete" /\ fail = "none"
              THEN [idx EXCEPT !.status = "completed", !.percent = 100,
                               !.message = "RAG index built successfully.", !.errors = ""]
              ELSE tracker_fail(idx, "Failed to build RAG index. See errors for details.")
    /\ faults' = IF fail = "none" THEN faults ELSE faults + 1
    /\ loc' = [loc EXCEPT ![w].pc = "done", ![w].report = idx'.message]
    /\ UNCHANGED <<fs, lastOp, everOk, damage, pc, locks, calls>>

\* Command.handle of build_rag_index for paths that exist, in a process of
\* its own that shares nothing with the tracker of the server: the directory
\* of the new source is made once chunks were found
HandleCommand(chunks, force, fail) ==
    /\ loc[CommandRun].pc = "unborn"
    /\ calls = 0 /\ \A q \in Requesters : pc[q].at = "idle"
    /\ CanFail(fail)
    /\ LET made == IF fs[CommandDir] = <<>> THEN <<EmptyDir>> ELSE fs[CommandDir]
           exists == index_exists(made)
           why == abort_reason(chunks, exists, force)
           r == build_from_texts(Uninitialized, made, EnvConfig, CommandDir, chunks, fail)
       IN  /\ Reaches(fail, why = "" /\ r.hit)
           /\ fs' = [fs EXCEPT ![CommandDir] = IF chunks = <<>> THEN @ ELSE IF why # "" THEN made ELSE r.dir]
           /\ faults' = IF why = "" /\ r.hit THEN faults + 1 ELSE faults
           /\ loc' = [loc EXCEPT ![CommandRun] =
                        [pc |-> "done", root |-> "cmd", force |-> force, chunks |-> chunks,
                         existed |-> chunks # <<>> /\ exists, built |-> why = "",
                         report |-> IF why # "" THEN why ELSE r.outcome,
                         at_start |-> fs[CommandDir]]]
    /\ UNCHANGED <<idx, lastOp, everOk, damage, pc, locks, calls>>

InitRunner ==
    /\ \E d \in { <<>>, <<ServedDir("s1")>> } : fs = [p \in { DataDir, CommandDir } |-> d]
    /\ idx = IdleProgress
    /\ lastOp = [op |-> "init", by |-> "", outcome |-> ""]
    /\ everOk = FALSE
    /\ faults = 0
    /\ damage = 0
    /\ pc = [q \in Requesters |-> [at |-> "idle", force |-> FALSE]]
    /\ loc = [w \in { CommandRun } \cup Workers |-> Unborn]
    /\ locks = <<>>
    /\ calls = 0

NextRunner ==
    \/ \E q \in Requesters, force \in BOOLEAN : StartAcquire(q, force)
    \/ \E q \in Requesters : StartCheck(q)
    \/ \E q \in Requesters : StartSet(q)
    \/ \E q \in Requesters : ThreadStart(q)
    \/ \E w \in Workers : ExecUpdate(w)
    \/ \E w \in Workers, chunks \in ChunkLists : ExecCollect(w, chunks)
    \/ \E w \in Workers : ExecConfigure(w)
    \/ \E w \in Workers, fail \in { "none", "encode" } : ExecBuild(w, fail)
    \/ \E w \in Workers, fail \in { "none", "state" } : ExecFinish(w, fail)
    \/ \E chunks \in ChunkLists, force \in BOOLEAN, fail \in { "none", "docs" } : HandleCommand(chunks, force, fail)

SpecRunner == InitRunner /\ [][NextRunner]_vars

\* ------------------------------------------- rag_service: _gather_contexts

\* RagIndex.search(query, k, fusion_weight) on a READY instance whose dense
\* index ranks its vectors in the given order: the (document, score) pairs
search_hits(inst, query, k, fusion_weight, order) ==
    LET v == _search_vectors(InMemoryEmbeddingCache(512), DefaultConfig.model, inst.mem.index[1], query, k, order)
        keyword_hits == _merge_keyword_hits(KeywordIndexSearch(inst.mem.keyword_index[1], query, k),
                                            InvertedIndexSearch(inst.dir, query, k, One))
        fused == _fuse_results(v.hits, keyword_hits, clamp_weight(fusion_weight))
        results == search_results(inst.mem.docs, fused, k)
    IN  [i \in 1..Len(results) |-> <<inst.mem.docs[results[i][1] + 1], results[i][2]>>]

\* max(score for _, score in hits) for hits that are not empty
max_score_of(hits) ==
    CHOOSE m \in { hits[i][2] : i \in 1..Len(hits) } : \A i \in 1..Len(hits) : ~RLess(m, hits[i][2])

\* the hits of a source taken with the scores they have
normalized_not(rag_source, hits) ==
    [i \in 1..Len(hits) |-> <<hits[i][1], hits[i][2], rag_source>>]

\* the body of the loop of _gather_contexts for a source with hits:
\* max_score = max(...) or 1.0, and every score divided by it
normalized(rag_source, hits) ==
    LET m == max_score_of(hits)
        max_score == IF m = Zero THEN One ELSE m
    IN  [i \in 1..Len(hits) |-> <<hits[i][1], RDiv(hits[i][2], max_score), rag_source>>]

\* the loop of _gather_contexts over rag_sources, from source i on
RECURSIVE gather_loop(_, _, _, _)
gather_loop(combined, rag_sources, hits_of, i) ==
    IF i > Len(rag_sources) THEN combined
    ELSE gather_loop(IF hits_of[rag_sources[i]] = <<>> THEN combined
                     ELSE combined \o normalized(rag_sources[i], hits_of[rag_sources[i]]),
                     rag_sources, hits_of, i + 1)

\* _gather_contexts, given the rows the filter finds and what the search of
\* the index of each row returns
_gather_contexts(top_k, sources, rag_sources, hits_of) ==
    LET combined == gather_loop(<<>>, rag_sources, hits_of, 1)
        sorted == sorted_desc(combined)
    IN  IF sources = <<>> THEN [outcome |-> "No RAG sources selected.", combined |-> <<>>, contexts |-> <<>>]
        ELSE IF rag_sources = <<>> THEN [outcome |-> "No matching RAG sources found.", combined |-> <<>>, contexts |-> <<>>]
        ELSE IF combined = <<>> THEN [outcome |-> "RAG index is empty or not initialized.", combined |-> <<>>, contexts |-> <<>>]
        ELSE [outcome |-> "ok", combined |-> combined,
              contexts |-> SubSeq(sorted, 1, IF top_k < Len(sorted) THEN top_k ELSE Len(sorted))]

\* the rows of RagSource and the READY index of each
SourceIndex(s) ==
    LET built == build_nonempty(Uninitialized, <<>>, DefaultConfig, Srv(s),
                                IF s = "s1" THEN << <<"A", " ", "b">>, <<"a">> >> ELSE << <<"a">> >>, "none")
    IN  [mem |-> built.mem, dir |-> built.dir]

\* _gather_contexts(question, top_k, fusion_weight, sources): the rows are
\* those of the ids in sources that exist, and every index is searched
GatherCall ==
    /\ lastOp.op = "_gather_contexts" /\ ~lastOp.done
    /\ LET rag_sources == SelectSeq(<<"s1", "s2">>, LAMBDA s : \E i \in 1..Len(lastOp.sources) : lastOp.sources[i] = s)
           hits_of == [s \in Sids |-> search_hits(SourceIndex(s), lastOp.question, lastOp.top_k, lastOp.fusion_weight,
                                                   IF s = "s1" THEN lastOp.order ELSE <<0>>)]
           r == _gather_contexts(lastOp.top_k, lastOp.sources, rag_sources, hits_of)
       IN  lastOp' = [lastOp EXCEPT !.done = TRUE, !.rag_sources = rag_sources,
                        !.hits_of = [s \in Sids |-> IF s \in { rag_sources[i] : i \in 1..Len(rag_sources) } THEN hits_of[s] ELSE <<>>],
                        !.outcome = r.outcome, !.combined = r.combined, !.contexts = r.contexts]
    /\ UNCHANGED <<fs, idx, everOk, faults, damage, svcVars>>

InitGather ==
    /\ fs = [p \in Paths |-> <<>>]
    /\ idx = [cfg |-> DefaultConfig, mem |-> Uninitialized]
    /\ \E question \in { <<" ">>, <<"a">>, <<"b">> }, top_k \in 0..MaxK, fusion_weight \in SearchWeights,
          sources \in { <<>>, <<"s9">>, <<"s1">>, <<"s2">>, <<"s2", "s1">>, <<"s1", "s9">> },
          order \in DenseOrders(2) :
         lastOp = [op |-> "_gather_contexts", done |-> FALSE, question |-> question, top_k |-> top_k,
                   fusion_weight |-> fusion_weight, sources |-> sources, order |-> order,
                   rag_sources |-> <<>>, hits_of |-> [s \in Sids |-> <<>>],
                   outcome |-> "", combined |-> <<>>, contexts |-> <<>>]
    /\ everOk = FALSE
    /\ faults = 0
    /\ damage = 0
    /\ InitService

NextGather == GatherCall

SpecGather == InitGather /\ [][NextGather]_vars

\* ------------------------------------------ rag_service: the index registry

MaxLoads == 3

MaxRebuilds == 1

\* request threads that load the index of a source, and the thread of a
\* rebuild
Loaders == { "t1", "t2" }

Rebuilder == "b"

\* the locals of a thread between calls
NoCall == [sid |-> "", index |-> <<>>, disk |-> <<>>]

\* a drop that leaves the registry as it is
drop_cached_source_kept(indexes, source_id) == indexes

\* drop_cached_source(source_id)
drop_cached_source(indexes, source_id) == [indexes EXCEPT ![source_id] = <<>>]

\* _load_rag_source: the lookup; a cached instance is returned
LoadLookup(t, s) ==
    /\ pc[t] = "idle"
    /\ IF idx.indexes[s] # <<>>
       THEN /\ lastOp' = [op |-> "_load_rag_source", by |-> t, sid |-> s, outcome |-> "ok",
                          index |-> idx.indexes[s], fresh |-> FALSE, disk |-> <<>>]
            /\ UNCHANGED <<pc, loc>>
       ELSE /\ calls < MaxLoads
            /\ pc' = [pc EXCEPT ![t] = "load"]
            /\ loc' = [loc EXCEPT ![t] = [NoCall EXCEPT !.sid = s]]
            /\ UNCHANGED lastOp
    /\ UNCHANGED <<fs, idx, everOk, faults, damage, locks, calls>>

\* _load_rag_source: RagIndex(config) and index.load(); an exception of
\* load leaves the call
LoadFromDisk(t) ==
    /\ pc[t] = "load"
    /\ LET s == loc[t].sid
           r == load(Uninitialized, fs[Srv(s)], EnvConfig, Srv(s), "none")
       IN  /\ calls' = calls + 1
           /\ fs' = [fs EXCEPT ![Srv(s)] = r.dir]
           /\ IF r.outcome = "ok"
              THEN /\ pc' = [pc EXCEPT ![t] = "store"]
                   /\ loc' = [loc EXCEPT ![t].index = <<[id |-> calls + 1, mem |-> r.mem]>>,
                                         ![t].disk = fs[Srv(s)]]
                   /\ UNCHANGED lastOp
              ELSE /\ pc' = [pc EXCEPT ![t] = "idle"]
                   /\ loc' = [loc EXCEPT ![t] = NoCall]
                   /\ lastOp' = [op |-> "_load_rag_source", by |-> t, sid |-> s, outcome |-> r.outcome,
                                 index |-> <<>>, fresh |-> FALSE, disk |-> fs[Srv(s)]]
    /\ UNCHANGED <<idx, everOk, faults, damage, locks>>

\* _load_rag_source: the instance is put into the registry and returned
LoadStore(t) ==
    /\ pc[t] = "store"
    /\ idx' = [idx EXCEPT !.indexes[loc[t].sid] = loc[t].index]
    /\ lastOp' = [op |-> "_load_rag_source", by |-> t, sid |-> loc[t].sid, outcome |-> "ok",
                  index |-> loc[t].index, fresh |-> TRUE, disk |-> loc[t].disk]
    /\ pc' = [pc EXCEPT ![t] = "idle"]
    /\ loc' = [loc EXCEPT ![t] = NoCall]
    /\ UNCHANGED <<fs, everOk, faults, damage, locks, calls>>

\* RagSourceService.update_metadata(source_id, name, description) for a
\* source that exists; named and described tell which arguments are given
UpdateMetadata(s, named, described) ==
    /\ pc[Rebuilder] = "idle"
    /\ LET d == IF fs[Srv(s)] = <<>> THEN EmptyDir ELSE fs[Srv(s)][1]
           updated == named \/ described
       IN  /\ fs' = IF updated
                    THEN [fs EXCEPT ![Srv(s)] = <<[d EXCEPT !.source_meta = <<SourceMetadata(s, IF d.docs = <<>> THEN <<>> ELSE d.docs[1])>>]>>]
                    ELSE fs
           /\ idx' = IF updated THEN [idx EXCEPT !.indexes = drop_cached_source(idx.indexes, s)] ELSE idx
           /\ lastOp' = [op |-> "update_metadata", by |-> Rebuilder, sid |-> s,
                         outcome |-> IF updated THEN "updated" ELSE "same",
                         index |-> <<>>, fresh |-> FALSE, disk |-> <<>>]
    /\ UNCHANGED <<everOk, faults, damage, pc, loc, locks, calls>>

\* _build of a source that succeeds, up to the end of the locked section:
\* the new index is built and swapped in, and the cached instance dropped
RebuildSwap(s, chunks) ==
    /\ pc[Rebuilder] = "idle"
    /\ idx.rebuilds < MaxRebuilds
    /\ calls < MaxLoads
    /\ LET r == build_from_texts(Uninitialized, <<>>, EnvConfig, Tmp(s), chunks, "none")
       IN  /\ fs' = [fs EXCEPT ![Srv(s)] = <<[r.dir[1] EXCEPT !.source_meta = <<SourceMetadata(s, chunks)>>]>>]
           /\ loc' = [loc EXCEPT ![Rebuilder] = [sid |-> s, index |-> <<[id |-> calls + 1, mem |-> r.mem]>>, disk |-> <<>>]]
    /\ calls' = calls + 1
    /\ idx' = [idx EXCEPT !.indexes = drop_cached_source(idx.indexes, s), !.rebuilds = @ + 1]
    /\ pc' = [pc EXCEPT ![Rebuilder] = "on_commit"]
    /\ lastOp' = [op |-> "_build", by |-> Rebuilder, sid |-> s, outcome |-> "swapped",
                  index |-> <<>>, fresh |-> FALSE, disk |-> <<>>]
    /\ UNCHANGED <<everOk, faults, damage, locks>>

\* _on_commit of _build: warm_cached_source(source, index=rag_index) when
\* RAG_WARM_CACHE_ON_BUILD is set
RebuildOnCommit(warm) ==
    /\ pc[Rebuilder] = "on_commit"
    /\ idx' = IF warm THEN [idx EXCEPT !.indexes[loc[Rebuilder].sid] = loc[Rebuilder].index] ELSE idx
    /\ lastOp' = [op |-> "_on_commit", by |-> Rebuilder, sid |-> loc[Rebuilder].sid,
                  outcome |-> IF warm THEN "warmed" ELSE "ok",
                  index |-> <<>>, fresh |-> FALSE, disk |-> <<>>]
    /\ pc' = [pc EXCEPT ![Rebuilder] = "idle"]
    /\ loc' = [loc EXCEPT ![Rebuilder] = NoCall]
    /\ UNCHANGED <<fs, everOk, faults, damage, locks, calls>>

InitRegistry ==
    /\ \E other \in { <<>>, <<ServedDir("s2")>> } :
          fs = [p \in { Srv(s) : s \in Sids } |-> IF p = Srv("s1") THEN <<ServedDir("s1")>> ELSE other]
    /\ idx = [indexes |-> [s \in Sids |-> <<>>], rebuilds |-> 0]
    /\ lastOp = [op |-> "init", by |-> "", sid |-> "", outcome |-> "", index |-> <<>>, fresh |-> FALSE, disk |-> <<>>]
    /\ everOk = FALSE
    /\ faults = 0
    /\ damage = 0
    /\ pc = [t \in Loaders \cup { Rebuilder } |-> "idle"]
    /\ loc = [t \in Loaders \cup { Rebuilder } |-> NoCall]
    /\ locks = [s \in Sids |-> <<>>]
    /\ calls = 0

NextRegistry ==
    \/ \E t \in Loaders, s \in Sids : LoadLookup(t, s)
    \/ \E t \in Loaders : LoadFromDisk(t)
    \/ \E t \in Loaders : LoadStore(t)
    \/ \E s \in Sids, named \in BOOLEAN, described \in BOOLEAN : UpdateMetadata(s, named, described)
    \/ \E s \in Sids : RebuildSwap(s, << <<"A", " ", "b">>, <<"a">> >>)
    \/ \E warm \in BOOLEAN : RebuildOnCommit(warm)

SpecRegistry == InitRegistry /\ [][NextRegistry]_vars

\* ------------------------------------------------- the checksum on inputs

\* _compute_checksum(docs) of the two document lists of lastOp
ChecksumCall ==
    /\ lastOp.op = "_compute_checksum" /\ ~lastOp.done
    /\ lastOp' = [lastOp EXCEPT !.done = TRUE,
                    !.checksum_a = _compute_checksum(lastOp.docs_a),
                    !.checksum_b = _compute_checksum(lastOp.docs_b)]
    /\ UNCHANGED <<fs, idx, everOk, faults, damage, svcVars>>

InitChecksum ==
    /\ fs = [p \in Paths |-> <<>>]
    /\ idx = [cfg |-> DefaultConfig, mem |-> Uninitialized]
    /\ \E docs_a, docs_b \in UNION { [1..n -> { <<>>, <<"a">>, <<"b">>, <<"a", "b">> }] : n \in 0..2 } :
         lastOp = [op |-> "_compute_checksum", done |-> FALSE, docs_a |-> docs_a, docs_b |-> docs_b,
                   checksum_a |-> <<>>, checksum_b |-> <<>>]
    /\ everOk = FALSE
    /\ faults = 0
    /\ damage = 0
    /\ InitService

SpecChecksum == InitChecksum /\ [][ChecksumCall]_vars

\* the steps of one worker thread of the build runner
WorkerStep(w) ==
    \/ ExecUpdate(w)
    \/ \E chunks \in ChunkLists : ExecCollect(w, chunks)
    \/ ExecConfigure(w)
    \/ \E fail \in { "none", "encode" } : ExecBuild(w, fail)
    \/ \E fail \in { "none", "state" } : ExecFinish(w, fail)

\* the build runner under a scheduler that lets every started thread run:
\* a start_build that holds the tracker lock goes on to release it and to
\* start its thread, and a worker that asks for the lock again and again
\* gets it
SpecRunnerLive ==
    /\ SpecRunner
    /\ \A q \in Requesters : WF_vars(StartCheck(q) \/ StartSet(q) \/ ThreadStart(q))
    /\ \A w \in Workers : SF_vars(WorkerStep(w))

\* ------------------------------------- queries on cached index instances

\* the chunks a rebuild collects
RebuiltChunks == << <<"A", " ", "b">>, <<"a">> >>

ServeQueries == { <<"a">>, <<"b">> }

\* _build of a source up to the return of _atomic_swap_dir: the index is
\* built in <id>.tmp by an instance configured for that directory, and
\* <id>.tmp is renamed to the serving path
ServeBuildSwap(s, chunks) ==
    /\ pc[Rebuilder] = "idle"
    /\ idx.rebuilds < MaxRebuilds
    /\ calls < MaxLoads
    /\ \E r \in { build_from_texts(Uninitialized, <<>>, EnvConfig, Tmp(s), chunks, "none") } :
        /\ fs' = [fs EXCEPT ![Srv(s)] = r.dir, ![Tmp(s)] = <<>>]
        /\ loc' = [loc EXCEPT ![Rebuilder] = [sid |-> s, index |-> <<[id |-> calls + 1, mem |-> r.mem]>>, disk |-> <<>>]]
    /\ calls' = calls + 1
    /\ idx' = [idx EXCEPT !.rebuilds = @ + 1]
    /\ pc' = [pc EXCEPT ![Rebuilder] = "save"]
    /\ lastOp' = [op |-> "_build", by |-> Rebuilder, sid |-> s, outcome |-> "swapped",
                  index |-> <<>>, fresh |-> FALSE, disk |-> <<>>]
    /\ UNCHANGED <<everOk, faults, damage, locks>>

\* _build from source.save to drop_cached_source: the metadata file is
\* written into the serving directory, rag_index.config is assigned (an
\* attribute nothing reads), and the cached instance is dropped
ServeSaveDrop ==
    /\ pc[Rebuilder] = "save"
    /\ LET s == loc[Rebuilder].sid
       IN  /\ fs' = [fs EXCEPT ![Srv(s)] = <<[fs[Srv(s)][1] EXCEPT !.source_meta = <<SourceMetadata(s, fs[Srv(s)][1].docs[1])>>]>>]
           /\ idx' = [idx EXCEPT !.indexes = drop_cached_source(idx.indexes, s)]
           /\ lastOp' = [op |-> "_build", by |-> Rebuilder, sid |-> s, outcome |-> "dropped",
                         index |-> <<>>, fresh |-> FALSE, disk |-> <<>>]
    /\ pc' = [pc EXCEPT ![Rebuilder] = "on_commit"]
    /\ UNCHANGED <<everOk, faults, damage, loc, locks, calls>>

\* _gather_contexts for one source whose instance is cached:
\* _load_rag_source returns the cached instance and index.search runs the
\* three engines, the fuzzy one on the directory its handle names
ServeSearch(s, query, order) ==
    /\ idx.indexes[s] # <<>>
    /\ LET inst == idx.indexes[s][1]
           root_dir == inst.mem.inverted_index[1].root_dir
           v == _search_vectors(InMemoryEmbeddingCache(512), EnvConfig.model, inst.mem.index[1], query, MaxK, order)
       IN  /\ order \in DenseOrders(Len(inst.mem.index[1].vecs))
           /\ lastOp' = [op |-> "search", by |-> "query", sid |-> s, outcome |-> "ok",
                         index |-> <<>>, fresh |-> FALSE, disk |-> <<>>,
                         query |-> query, root_dir |-> root_dir, docs |-> inst.mem.docs,
                         vector_hits |-> v.hits,
                         bm25_hits |-> KeywordIndexSearch(inst.mem.keyword_index[1], query, MaxK),
                         inverted_hits |-> InvertedIndexSearch(fs[root_dir], query, MaxK, One)]
    /\ UNCHANGED <<fs, idx, everOk, faults, damage, svcVars>>

InitServe ==
    /\ fs = [p \in { Srv(s) : s \in Sids } \cup { Tmp(s) : s \in Sids } |->
               IF p = Srv("s1") THEN <<ServedDir("s1")>> ELSE <<>>]
    /\ idx = [indexes |-> [s \in Sids |-> <<>>], rebuilds |-> 0]
    /\ lastOp = [op |-> "init", by |-> "", sid |-> "", outcome |-> "", index |-> <<>>, fresh |-> FALSE, disk |-> <<>>]
    /\ everOk = FALSE
    /\ faults = 0
    /\ damage = 0
    /\ pc = [t \in Loaders \cup { Rebuilder } |-> "idle"]
    /\ loc = [t \in Loaders \cup { Rebuilder } |-> NoCall]
    /\ locks = [s \in Sids |-> <<>>]
    /\ calls = 0

NextServe ==
    \/ \E t \in Loaders, s \in Sids : LoadLookup(t, s)
    \/ \E t \in Loaders : LoadFromDisk(t)
    \/ \E t \in Loaders : LoadStore(t)
    \/ \E s \in Sids : ServeBuildSwap(s, RebuiltChunks)
    \/ ServeSaveDrop
    \/ \E warm \in BOOLEAN : RebuildOnCommit(warm)
    \/ \E s \in Sids, query \in ServeQueries, order \in DenseOrders(2) \cup DenseOrders(1) : ServeSearch(s, query, order)

SpecServe == InitServe /\ [][NextServe]_vars

\* ------------------------------------------- the query path to the boundary

\* the states of the directory of a source at a query: never built, made
\* without artifacts, holding an empty document list, serving
BoundaryDirs(s) == { <<>>, <<EmptyDir>>, <<EmptyCorpusDir>>, <<ServedDir(s)>> }

\* the exception class that leaves the first two statements of the loop of
\* _gather_contexts for one source, "" if none: index.load() of
\* _load_rag_source, then index.search
index_raises(dirOpt, path, question) ==
    LET r == load(Uninitialized, dirOpt, EnvConfig, path, "none")
    IN  IF r.outcome # "ok" THEN r.outcome
        ELSE IF search(r.mem).outcome # "ok" THEN search(r.mem).outcome
        ELSE ""

\* the hits of index.search for a source whose load and search return
index_hits(dirOpt, path, question) ==
    LET r == load(Uninitialized, dirOpt, EnvConfig, path, "none")
    IN  search_hits([mem |-> r.mem, dir |-> r.dir], question, MaxK, <<1, 2>>,
                    [j \in 1..Len(r.mem.index[1].vecs) |-> j - 1])

\* the first exception of the loop of _gather_contexts from source i on
RECURSIVE gather_raises(_, _, _, _)
gather_raises(rag_sources, dir_of, question, i) ==
    IF i > Len(rag_sources) THEN ""
    ELSE IF index_raises(dir_of[rag_sources[i]], Srv(rag_sources[i]), question) # ""
    THEN index_raises(dir_of[rag_sources[i]], Srv(rag_sources[i]), question)
    ELSE gather_raises(rag_sources, dir_of, question, i + 1)

\* the exception class answer_question ends with through _prepare_chat and
\* _gather_contexts, "" if it gets its contexts
answer_question_raises(sources, dir_of, question) ==
    IF sources = <<>> THEN "AnswerNotReadyError"
    ELSE IF gather_raises(sources, dir_of, question, 1) # ""
    THEN gather_raises(sources, dir_of, question, 1)
    ELSE IF _gather_contexts(MaxK, sources, sources, [s \in Sids |-> IF \E i \in 1..Len(sources) : sources[i] = s
                                                                    THEN index_hits(dir_of[s], Srv(s), question) ELSE <<>>]).outcome # "ok"
    THEN "AnswerNotReadyError"
    ELSE ""

\* RagQueryService.answer: AnswerNotReadyError is raised again as
\* RagAnswerNotReadyError, anything else passes
answer(raised) == IF raised = "AnswerNotReadyError" THEN "RagAnswerNotReadyError" ELSE raised

\* the response status at the boundary: DomainError carries its status code
\* (503 for RagAnswerNotReadyError), CodeQAView answers AnswerNotReadyError
\* with 503 and any other exception with 500
http_status(exc) ==
    IF exc = "" THEN 200
    ELSE IF exc \in { "RagAnswerNotReadyError", "AnswerNotReadyError" } THEN 503
    ELSE 500

\* one query through RagQueryService.answer
AnswerCall ==
    /\ lastOp.op = "answer" /\ ~lastOp.done
    /\ \E raised \in { answer_question_raises(lastOp.sources, lastOp.dir_of, lastOp.question) } :
         lastOp' = [lastOp EXCEPT !.done = TRUE, !.raised = raised,
                      !.boundary = answer(raised), !.status = http_status(answer(raised))]
    /\ UNCHANGED <<fs, idx, everOk, faults, damage, svcVars>>

InitBoundary ==
    /\ fs = [p \in Paths |-> <<>>]
    /\ idx = [cfg |-> DefaultConfig, mem |-> Uninitialized]
    /\ \E d1 \in BoundaryDirs("s1"), d2 \in BoundaryDirs("s2"),
          sources \in { <<>>, <<"s1">>, <<"s2">>, <<"s1", "s2">> },
          question \in { <<"a">>, <<"b">> } :
         lastOp = [op |-> "answer", done |-> FALSE, sources |-> sources, question |-> question,
                   dir_of |-> [s \in Sids |-> IF s = "s1" THEN d1 ELSE d2],
                   raised |-> "", boundary |-> "", status |-> 0]
    /\ everOk = FALSE
    /\ faults = 0
    /\ damage = 0
    /\ InitService

SpecBoundary == InitBoundary /\ [][AnswerCall]_vars

\* ----------------------------------------------------------------- claims

\* the five structures the READY state is made of
Core(mem) ==
    <<mem.index, mem.docs, mem.tokenized_docs, mem.keyword_index,
      mem.inverted_index>>

IsCall == lastOp'.op \in {"build_from_texts", "load"}

\* C1: a build_from_texts or load that raises leaves _index, _docs,
\* _tokenized_docs, _keyword_index and _inverted_index exactly as they were
\* before the call.
C1_FailedCallKeepsMemory ==
    [][(IsCall /\ lastOp'.outcome # "ok") => Core(idx'.mem) = Core(idx.mem)]_vars

\* the four conditions of C6, on the directory and configuration a load
\* starts from
C6_IndexUnreadable(d) == d.index = <<>>

C6_DimensionDiffers(d, cfg) ==
    /\ d.index # <<>>
    /\ ModelReportsDim(cfg.model)
    /\ d.index[1].d # ModelDim(cfg.model)

C6_VersionDiffers(d, cfg) ==
    d.meta = <<>> \/ d.meta[1].version # cfg.index_version

C6_ChecksumDiffers(d) ==
    d.meta = <<>> \/ d.meta[1].checksum # Concat(d.docs[1])

C6_Stale(d, cfg) ==
    \/ C6_IndexUnreadable(d)
    \/ C6_DimensionDiffers(d, cfg)
    \/ C6_VersionDiffers(d, cfg)
    \/ C6_ChecksumDiffers(d)

\* the artifacts d holds are the ones derived from docs under cfg
C6_Fresh(d, cfg, docs) ==
    /\ d.index = <<IndexFlatIP(cfg.model, Encode(cfg.model, docs))>>
    /\ d.tokens = <<KeywordIndexBuild(docs).tokenized_docs>>
    /\ d.keywords = <<to_persisted(KeywordIndexBuild(docs))>>
    /\ d.whoosh = <<InvertedIndexBuild(docs)>>
    /\ d.meta = <<[version |-> cfg.index_version, checksum |-> Concat(docs)]>>

\* C6: a load that can read docs, tokenized docs and BM25 data calls the
\* embedding model if and only if the dense index is unreadable, or the model
\* reports a dimension other than the index's, or the stored version differs
\* from the configured one, or the stored checksum differs from the checksum
\* of the loaded docs; when it does and returns, the dense, BM25 and fuzzy
\* artifacts and the metadata on disk are the ones derived from the loaded
\* docs; when it does not, the persisted dense index and BM25 data are what
\* the instance holds and the files are not rewritten.
C6_RebuildIffStale ==
    [][(lastOp'.op = "load" /\ load_readable(fs[DataDir])) =>
         LET d == fs[DataDir][1]
             stale == C6_Stale(d, idx.cfg)
         IN  /\ lastOp'.encoded = stale
             /\ (stale /\ lastOp'.outcome = "ok") =>
                    /\ lastOp'.rebuilt
                    /\ C6_Fresh(fs'[DataDir][1], idx.cfg, d.docs[1])
             /\ ~stale =>
                    /\ ~lastOp'.rebuilt
                    /\ idx'.mem.index = d.index
                    /\ to_persisted(idx'.mem.keyword_index[1]) = d.keywords[1]
                    /\ fs'[DataDir][1].index = d.index
                    /\ fs'[DataDir][1].keywords = d.keywords
                    /\ fs'[DataDir][1].meta = d.meta]_vars

C6_Witness ==
    /\ lastOp.op = "load"
    /\ lastOp.outcome = "ok"
    /\ lastOp.rebuilt

\* C7: a load that directly follows a successful build_from_texts on the same
\* instance returns without calling the embedding model or writing a file,
\* and holds the same dense index, docs, tokenized docs, BM25 parameters and
\* fuzzy index handle as the build left, so search answers the same.
C7_IdempotentReload ==
    [][(BuildOk /\ lastOp'.op = "load") =>
         /\ lastOp'.outcome = "ok"
         /\ ~lastOp'.encoded
         /\ Core(idx'.mem) = Core(idx.mem)
         /\ fs' = fs]_vars

C7_Witness ==
    /\ lastOp.op = "load"
    /\ lastOp.afterBuildOk
    /\ lastOp.outcome = "ok"
    /\ Len(idx.mem.docs) > 1

\* C8: while no build_from_texts or load has completed on the instance, and
\* whenever the loaded document list is empty, search raises the not-loaded
\* error and queries no sub-engine; a search that directly follows a
\* successful build_from_texts does not raise it.
C8_NotLoadedError ==
    /\ (~everOk \/ idx.mem.docs = <<>>) => search(idx.mem).outcome = "RuntimeError"
    /\ (lastOp.op = "search" /\ (~everOk \/ idx.mem.docs = <<>>)) =>
           /\ lastOp.outcome = "RuntimeError"
           /\ lastOp.engines = {}
    /\ BuildOk => search(idx.mem).outcome = "ok"
    /\ (lastOp.op = "search" /\ lastOp.afterBuildOk) => lastOp.outcome = "ok"

\* a search refused on an instance whose only load failed half way
C8_Witness ==
    /\ lastOp.op = "search"
    /\ lastOp.outcome = "RuntimeError"
    /\ ~everOk
    /\ idx.mem.index # <<>>

\* C9: build_from_texts of an empty list raises ValueError, calls no
\* embedding model, and leaves every file and the in-memory state as they
\* were.
C9_EmptyBuildRejected ==
    [][\A fail \in FailPoints :
         BuildFromTexts(<<>>, fail) =>
           /\ lastOp'.outcome = "ValueError"
           /\ ~lastOp'.encoded
           /\ fs' = fs
           /\ idx' = idx]_vars

C9_Witness ==
    /\ lastOp.op = "build_from_texts"
    /\ lastOp.outcome = "ValueError"
    /\ everOk
    /\ idx.mem.docs # <<>>

\* the docs file, the tokenized-docs file and the BM25 data file of C10
C10_Unreadable(dirOpt) ==
    \/ dirOpt = <<>>
    \/ dirOpt[1].docs = <<>>
    \/ dirOpt[1].tokens = <<>>
    \/ dirOpt[1].keywords = <<>>

\* C10: a load that cannot read the docs file, the tokenized-docs file or the
\* BM25 data file raises FileNotFoundError, calls no embedding model, writes
\* nothing and leaves the in-memory state as it was.
C10_MissingIndexError ==
    [][(lastOp'.op = "load" /\ C10_Unreadable(fs[DataDir])) =>
         /\ lastOp'.outcome = "FileNotFoundError"
         /\ ~lastOp'.encoded
         /\ fs' = fs
         /\ idx' = idx]_vars

\* a READY instance whose docs file was lost
C10_Witness ==
    /\ lastOp.op = "load"
    /\ lastOp.outcome = "FileNotFoundError"
    /\ everOk
    /\ fs[DataDir] # <<>>
    /\ fs[DataDir][1].tokens # <<>>

\* builder b takes a step
Steps(b) == pc'[b] # pc[b]

\* C2: when _build fails while the new index is constructed in the temporary
\* directory (RagIndex construction or build_from_texts raises, before
\* _atomic_swap_dir starts), no step of the call, from _prepare_temp_dir to
\* its return, changes the serving directory of the source, so a serving
\* directory that was loadable stays loadable; when the call returns,
\* <id>.tmp does not exist, the caller gets RagSourceBuildError, and, no
\* other call for the same source having run meanwhile, the serving
\* directory is the one the call found.
C2_PreSwapFailureKeepsServing ==
    [][\A b \in Builders :
         LET s == loc[b].sid
         IN  /\ (Steps(b) /\ pc[b] \in { "prepare", "build" }) =>
                    fs'[Srv(s)] = fs[Srv(s)]
             /\ (pc[b] = "build" /\ pc'[b] = "except") =>
                    loc'[b].failedAt = "build"
             /\ (Steps(b) /\ loc[b].failedAt = "build") =>
                    /\ fs'[Srv(s)] = fs[Srv(s)]
                    /\ Complete(fs[Srv(s)]) => Complete(fs'[Srv(s)])
             /\ (pc[b] = "finally" /\ pc'[b] = "idle"
                   /\ loc[b].failedAt = "build") =>
                    /\ fs'[Tmp(s)] = <<>>
                    /\ loc'[b].outcome = "RagSourceBuildError"
                    /\ loc[b].alone => fs'[Srv(s)] = loc[b].at_call]_vars

\* a rebuild of a served source has returned after RagIndex construction or
\* build_from_texts raised on collected chunks
C2_Witness ==
    \E b \in Builders :
        /\ pc[b] = "idle"
        /\ loc[b].failedAt = "build"
        /\ loc[b].chunks # <<>>
        /\ loc[b].outcome = "RagSourceBuildError"
        /\ loc[b].existing
        /\ loc[b].alone
        /\ fs[Srv(loc[b].sid)] = loc[b].at_call
        /\ Complete(fs[Srv(loc[b].sid)])
        /\ fs[Tmp(loc[b].sid)] = <<>>

\* C3: when a _build that replaces an existing serving directory fails once
\* the swap has begun (os.replace of the temporary directory raises after
\* the serving directory was moved to <id>.bak, or source.save or
\* _write_metadata_file raises after the swap), the serving path holds the
\* complete previous index again when the call returns.
C3_FailedSwapRestoresServing ==
    [][\A b \in Builders :
         (/\ pc[b] = "finally"
          /\ pc'[b] = "idle"
          /\ loc[b].failedAt \in { "replace", "save", "write_metadata" }
          /\ loc[b].prev # <<>>) =>
            fs'[Srv(loc[b].sid)] = loc[b].prev]_vars

\* C4: while an existing source is being rebuilt, the serving path holds one
\* complete index at every intermediate state, so a RagIndex.load of it at
\* that moment succeeds.
C4_ServingAlwaysComplete ==
    \A b \in Builders :
        (pc[b] \in LockedSection /\ loc[b].existing) =>
            /\ Complete(fs[Srv(loc[b].sid)])
            /\ load(Uninitialized, fs[Srv(loc[b].sid)], EnvConfig,
                    Srv(loc[b].sid), "none").outcome = "ok"

\* C5: two _build calls for the same source id are never both between
\* _prepare_temp_dir and the end of the locked section; a call waiting for
\* the lock of an id that no other call holds, whatever other ids are being
\* built, can take it.
C5_SameSourceSerialized ==
    /\ \A b1, b2 \in Builders :
          (b1 # b2 /\ pc[b1] \in LockedSection /\ pc[b2] \in LockedSection)
              => loc[b1].sid # loc[b2].sid
    /\ \A b \in Builders :
          (/\ pc[b] = "lock"
           /\ \A b2 \in Builders \ {b} :
                 pc[b2] \in LockedSection => loc[b2].sid # loc[b].sid)
              => ENABLED AcquireLock(b)

\* one call is swapping directories while another call for the same id
\* waits for the lock
C5_Witness ==
    \E b1, b2 \in Builders :
        /\ b1 # b2
        /\ pc[b1] = "swap_replace"
        /\ pc[b2] = "lock"
        /\ loc[b1].sid = loc[b2].sid
        /\ ~ENABLED AcquireLock(b2)

\* the artifact files of a directory, none when it does not exist
C11_Files(dirOpt) == IF dirOpt = <<>> THEN EmptyDir ELSE dirOpt[1]

\* C11: a build_from_texts that raises, in the embedding or at any of the
\* writes of _save_index_and_docs, changes neither the in-memory structures
\* nor any artifact of the directory the instance is configured with, which
\* for _execute_build and for the build_rag_index command is the serving
\* location that load() reads.
C11_FailedBuildCommitsNothing ==
    [][(lastOp'.op = "build_from_texts" /\ lastOp'.outcome # "ok") =>
         /\ Core(idx'.mem) = Core(idx.mem)
         /\ C11_Files(fs'[DataDir]) = C11_Files(fs[DataDir])]_vars

\* the ordinals of a hit list, the position (from 1) and the score of one
HitOrds(hits) == { hits[i][1] : i \in 1..Len(hits) }

PosIn(hits, ord) == CHOOSE i \in 1..Len(hits) : hits[i][1] = ord

ScoreIn(hits, ord) == hits[PosIn(hits, ord)][2]

\* a list names no ordinal twice and its scores never increase
Ranked(hits) ==
    /\ Len(hits) = Cardinality(HitOrds(hits))
    /\ \A i, j \in 1..Len(hits) : i < j => ~RLess(hits[i][2], hits[j][2])

\* the merged keyword score the specification gives an ordinal
C16_Expected(bm25, fuzzy, ord) ==
    IF ord \in HitOrds(bm25) /\ ord \in HitOrds(fuzzy)
    THEN RMax(ScoreIn(bm25, ord), Rat(11 * ScoreIn(fuzzy, ord)[1], 10 * ScoreIn(fuzzy, ord)[2]))
    ELSE IF ord \in HitOrds(bm25) THEN ScoreIn(bm25, ord)
    ELSE Rat(11 * ScoreIn(fuzzy, ord)[1], 10 * ScoreIn(fuzzy, ord)[2])

C16_Merged(bm25, fuzzy, merged) ==
    /\ HitOrds(merged) = HitOrds(bm25) \cup HitOrds(fuzzy)
    /\ Ranked(merged)
    /\ \A ord \in HitOrds(merged) :
          ScoreIn(merged, ord) = C16_Expected(bm25, fuzzy, ord)

\* C16: the merged keyword list holds every ordinal of the BM25 hits or of
\* the fuzzy hits exactly once, with the maximum of its BM25 score and 1.1
\* times its fuzzy score over the lists it occurs in, sorted by that score in
\* descending order; and in search the position in this merged list is the
\* rank of the keyword side of the fusion: an ordinal that no vector hit names
\* gets (1 - w) / (60 + position), the position counted from 1.
C16_KeywordMerge ==
    /\ (lastOp.op = "merge" /\ lastOp.done) =>
         C16_Merged(lastOp.primary_hits, lastOp.secondary_hits, lastOp.merged)
    /\ (lastOp.op = "fuse" /\ lastOp.done) =>
         /\ C16_Merged(lastOp.bm25_hits, lastOp.inverted_hits, lastOp.keyword_hits)
         /\ \A ord \in HitOrds(lastOp.keyword_hits) \ HitOrds(lastOp.vector_hits) :
               /\ ord \in HitOrds(lastOp.fused)
               /\ ScoreIn(lastOp.fused, ord) =
                    RDiv(RSub(One, RMin(RMax(lastOp.fusion_weight, Zero), One)),
                         <<60 + PosIn(lastOp.keyword_hits, ord), 1>>)

\* a merge where the boosted fuzzy score of an ordinal beats its BM25 score
\* and moves it in front of an ordinal that BM25 ranks first
C16_Witness ==
    /\ lastOp.op = "merge" /\ lastOp.done
    /\ \E a, b \in HitOrds(lastOp.primary_hits) \cap HitOrds(lastOp.secondary_hits) :
          /\ PosIn(lastOp.primary_hits, a) < PosIn(lastOp.primary_hits, b)
          /\ PosIn(lastOp.merged, b) < PosIn(lastOp.merged, a)
          /\ RLess(ScoreIn(lastOp.primary_hits, b), ScoreIn(lastOp.merged, b))
          /\ ScoreIn(lastOp.merged, a) = ScoreIn(lastOp.primary_hits, a)

\* the clamped fusion weight as the specification states it
C12_Weight(w) == IF RLess(w, Zero) THEN Zero ELSE IF RLess(One, w) THEN One ELSE w

\* the fused score the specification gives an ordinal
C12_Expected(vector_hits, keyword_hits, w, ord) ==
    RAdd(IF ord \in HitOrds(vector_hits)
         THEN Rat(w[1], w[2] * (60 + (PosIn(vector_hits, ord) - 1) + 1))
         ELSE Zero,
         IF ord \in HitOrds(keyword_hits)
         THEN Rat(w[2] - w[1], w[2] * (60 + (PosIn(keyword_hits, ord) - 1) + 1))
         ELSE Zero)

\* C12: with w the fusion weight clamped to [0, 1], the fused list holds
\* exactly the ordinals of the vector hits and of the keyword hits, each with
\* the sum of w / (60 + r + 1) for its rank r in the vector list and of
\* (1 - w) / (60 + r + 1) for its rank r in the keyword list; only ranks
\* enter the score, and a weight below 0 or above 1 counts as 0 or 1.
C12_WeightedRRF ==
    (lastOp.op = "fuse" /\ lastOp.done) =>
      /\ HitOrds(lastOp.fused) = HitOrds(lastOp.vector_hits) \cup HitOrds(lastOp.keyword_hits)
      /\ Len(lastOp.fused) = Cardinality(HitOrds(lastOp.fused))
      /\ \A ord \in HitOrds(lastOp.fused) :
            ScoreIn(lastOp.fused, ord) =
              C12_Expected(lastOp.vector_hits, lastOp.keyword_hits,
                           C12_Weight(lastOp.fusion_weight), ord)

\* a fusion with a weight above 1 in which an ordinal is in both lists at
\* different ranks and another one only in the keyword list
C12_Witness ==
    /\ lastOp.op = "fuse" /\ lastOp.done
    /\ lastOp.fusion_weight = <<3, 2>>
    /\ \E a \in HitOrds(lastOp.vector_hits) \cap HitOrds(lastOp.keyword_hits) :
          PosIn(lastOp.vector_hits, a) # PosIn(lastOp.keyword_hits, a)
    /\ HitOrds(lastOp.keyword_hits) \ HitOrds(lastOp.vector_hits) # {}

\* the number of the last call of a log that used a key (a get that hit, or
\* a set), 0 when none did
C20_LastUse(log, key) ==
    LET uses == { i \in 1..Len(log) : log[i].key = key /\ (log[i].op = "set" \/ log[i].hit) }
    IN  IF uses = {} THEN 0 ELSE CHOOSE i \in uses : \A j \in uses : j <= i

\* C20: a cache with max_size >= 1 never holds more than max_size entries;
\* a set that overflows the capacity removes exactly the entry whose last
\* use, by a get that hit or by a set, lies furthest back; and the entry
\* just set stays in the cache.
C20_BoundedLRU ==
    [][idx.cache.max_size >= 1 =>
         /\ Len(idx'.cache.entries) <= idx'.cache.max_size
         /\ (lastOp'.op = "set" /\ Strip(lastOp'.query) # <<>>) =>
              LET key == Strip(lastOp'.query)
                  before == DictKeys(idx.cache.entries) \cup {key}
                  after == DictKeys(idx'.cache.entries)
                  gone == before \ after
              IN  /\ key \in after
                  /\ after \subseteq before
                  /\ gone # {} <=> Cardinality(before) > idx.cache.max_size
                  /\ Cardinality(gone) <= 1
                  /\ \A g \in gone : \A e \in after :
                        C20_LastUse(lastOp'.log, g) < C20_LastUse(lastOp'.log, e)
         /\ lastOp'.op = "get" =>
              DictKeys(idx'.cache.entries) = DictKeys(idx.cache.entries)]_vars

\* a full cache of capacity 2 whose older entry was used by a get, after
\* which a set of a third key has evicted the one set later
C20_Witness ==
    /\ idx.cache.max_size = 2
    /\ Len(lastOp.log) = 4
    /\ lastOp.log[1].op = "set" /\ lastOp.log[2].op = "set"
    /\ lastOp.log[3].op = "get" /\ lastOp.log[3].hit
    /\ lastOp.log[3].key = lastOp.log[1].key
    /\ lastOp.log[4].op = "set"
    /\ DictKeys(idx.cache.entries) = { lastOp.log[1].key, lastOp.log[4].key }
    /\ lastOp.log[2].key \notin DictKeys(idx.cache.entries)

\* a search that has returned, and the ordinals of a list of hits in order
SearchDone == lastOp.op = "search" /\ lastOp.outcome = "ok"

OrdSeq(hits) == [i \in 1..Len(hits) |-> hits[i][1]]

\* the ordinals that a hit list names come in the order of that list, and
\* none of them comes behind an ordinal that the list does not name
C13_Follows(ordinals, hits) ==
    \A i, j \in 1..Len(ordinals) : i < j =>
      /\ (ordinals[i] \in HitOrds(hits) /\ ordinals[j] \in HitOrds(hits)) =>
           PosIn(hits, ordinals[i]) < PosIn(hits, ordinals[j])
      /\ ordinals[j] \in HitOrds(hits) => ordinals[i] \in HitOrds(hits)

\* C13: with fusion_weight 1 the fused list and the results of search keep
\* the relative order of the dense hits, with fusion_weight 0 that of the
\* merged keyword hits, and a document that only the engine of weight 0 has
\* found never stands before one that the engine of weight 1 has found.
C13_WeightBoundaries ==
    SearchDone =>
      /\ lastOp.fusion_weight = <<1, 1>> =>
           /\ C13_Follows(OrdSeq(lastOp.fused), lastOp.vector_hits)
           /\ C13_Follows(lastOp.ordinals, lastOp.vector_hits)
      /\ lastOp.fusion_weight = <<0, 1>> =>
           /\ C13_Follows(OrdSeq(lastOp.fused), lastOp.keyword_hits)
           /\ C13_Follows(lastOp.ordinals, lastOp.keyword_hits)

\* a search with fusion_weight 1 whose two results come in the order of the
\* dense hits, the reverse of the order of the keyword hits
C13_Witness ==
    /\ SearchDone
    /\ lastOp.fusion_weight = <<1, 1>>
    /\ lastOp.ordinals = <<1, 0>>
    /\ OrdSeq(lastOp.vector_hits) = <<1, 0>>
    /\ OrdSeq(lastOp.keyword_hits) = <<0, 1>>

\* the premises of the fusion example
C14_Example ==
    /\ SearchDone
    /\ idx.mem.docs = ExampleCorpus
    /\ lastOp.query = <<"c", "a", "t">>
    /\ lastOp.fusion_weight = <<1, 2>>
    /\ lastOp.k = 2
    /\ OrdSeq(lastOp.vector_hits) = <<0, 2>>

\* C14: in the fusion example document 0 is first in both lists and gets
\* 1/61, more than document 2, and the result is documents 0 and 2; document
\* 1 is in no vector hit, but BM25 scores every document, so it is second in
\* the keyword list with score 0 and gets 0.5/62, as much as document 2,
\* behind which the stable sort leaves it.
C14_FusionExample ==
    C14_Example =>
      /\ PosIn(lastOp.vector_hits, 0) = 1 /\ PosIn(lastOp.keyword_hits, 0) = 1
      /\ ScoreIn(lastOp.fused, 0) = <<1, 61>>
      /\ RLess(ScoreIn(lastOp.fused, 2), ScoreIn(lastOp.fused, 0))
      /\ lastOp.ordinals = <<0, 2>>
      /\ 1 \notin HitOrds(lastOp.vector_hits)
      /\ OrdSeq(lastOp.keyword_hits) = <<0, 1>>
      /\ ScoreIn(lastOp.keyword_hits, 1) = Zero
      /\ ScoreIn(lastOp.fused, 1) = <<1, 124>>
      /\ ScoreIn(lastOp.fused, 2) = <<1, 124>>
      /\ OrdSeq(lastOp.fused) = <<0, 2, 1>>

C14_Witness == C14_Example /\ Len(lastOp.results) = 2

\* the example as the specification words it: document 1 is in neither
\* list and contributes 0
C14_AsStated ==
    C14_Example =>
      /\ ScoreIn(lastOp.fused, 0) = <<1, 61>>
      /\ RLess(ScoreIn(lastOp.fused, 2), ScoreIn(lastOp.fused, 0))
      /\ 1 \notin HitOrds(lastOp.vector_hits)
      /\ 1 \notin HitOrds(lastOp.keyword_hits)
      /\ 1 \in HitOrds(lastOp.fused) => ScoreIn(lastOp.fused, 1) = Zero
      /\ lastOp.ordinals = <<0, 2>>

\* the first k hits of the fused list
C15_Cut == SubSeq(lastOp.fused, 1, IF lastOp.k < Len(lastOp.fused) THEN lastOp.k ELSE Len(lastOp.fused))

\* C15: a search that returns gives at most k pairs of a text and a score,
\* the scores never increasing, the texts being docs[ordinal] for distinct
\* ordinals within 0 <= ordinal < len(docs); they are the hits among the
\* first k of the fused list whose ordinal is within these bounds, so the cut
\* comes first and an ordinal out of bounds is dropped without an error.
C15_TopKInBounds ==
    SearchDone =>
      /\ Ranked(lastOp.fused)
      /\ Len(lastOp.results) <= lastOp.k
      /\ Len(lastOp.ordinals) = Len(lastOp.results)
      /\ \A i, j \in 1..Len(lastOp.results) : i < j =>
            /\ ~RLess(lastOp.results[i][2], lastOp.results[j][2])
            /\ lastOp.ordinals[i] # lastOp.ordinals[j]
      /\ \A i \in 1..Len(lastOp.results) :
            /\ 0 <= lastOp.ordinals[i] /\ lastOp.ordinals[i] < Len(idx.mem.docs)
            /\ lastOp.results[i][1] = idx.mem.docs[lastOp.ordinals[i] + 1]
            /\ lastOp.results[i][2] = ScoreIn(lastOp.fused, lastOp.ordinals[i])
      /\ lastOp.ordinals =
           SelectSeq(OrdSeq(C15_Cut), LAMBDA o : 0 <= o /\ o < Len(idx.mem.docs))

\* a search with k = 1 whose best fused ordinal has no document: nothing is
\* returned, although a later fused hit is within the bounds
C15_Witness ==
    /\ SearchDone
    /\ lastOp.k = 1
    /\ Len(lastOp.fused) = 2
    /\ lastOp.fused[1][1] >= Len(idx.mem.docs)
    /\ lastOp.fused[2][1] < Len(idx.mem.docs)
    /\ lastOp.results = <<>>

C19_Entries(cache) == { cache.entries[i] : i \in 1..Len(cache.entries) }

C18_ConcurrentSearchSafe ==
    [][/\ \A t \in Threads : loc'[t].outcome # "KeyError"
       /\ idx'.mem = idx.mem
       /\ \A t \in Threads : loc'[t].outcome = "ok" =>
             \E query \in ThreadQueries :
               /\ Strip(query) = Strip(loc'[t].query)
               /\ loc'[t].embedding = << Encode(idx.cfg.model, <<query>>)[1] >>]_vars

\* a finished call of one of the lexical engines, a query of nothing but
\* spaces, and the BM25 score of the document with ordinal o in that call
LexDone(op) == lastOp.op = op /\ lastOp.done

Blank(query) == \A i \in 1..Len(query) : query[i] = " "

LexScore(o) ==
    _score_doc(KeywordIndexBuild(lastOp.texts), _tokenize(lastOp.texts[o + 1]),
               _tokenize(lastOp.query), o)

\* C26: InvertedIndex.search answers a query that is empty or all whitespace,
\* and any query when its directory holds no index, with the empty list;
\* KeywordIndex.search answers a query without tokens, and any query on an
\* empty corpus, with the empty list.
C26_SoftFail ==
    /\ (LexDone("inverted_search") /\ (Blank(lastOp.query) \/ ~lastOp.exists)) =>
         lastOp.hits = <<>>
    /\ (LexDone("keyword_search") /\ (Blank(lastOp.query) \/ lastOp.texts = <<>>)) =>
         lastOp.hits = <<>>

\* a search for a blank query with k = 2 over three documents, by the
\* keyword engine or by the fuzzy engine with its index in place
C26_Witness ==
    /\ lastOp.done
    /\ lastOp.query = <<" ">> /\ Len(lastOp.texts) = 3 /\ lastOp.k = 2
    /\ lastOp.hits = <<>>
    /\ lastOp.op = "inverted_search" => lastOp.exists

\* C27: the hits of KeywordIndex.search are the min(k, N) documents that
\* come first when the corpus is ordered by falling BM25 score and, among
\* equal scores, rising ordinal; a document that shares no token with the
\* query scores 0 and is not returned when k or more documents score above
\* 0; the list is never longer than min(k, N).
C27_TopKStable ==
    LexDone("keyword_search") =>
      LET N == Len(lastOp.texts)
          hits == lastOp.hits
          before(o1, s1, o2, s2) == RLess(s2, s1) \/ (s1 = s2 /\ o1 < o2)
      IN  /\ Len(hits) <= lastOp.k /\ Len(hits) <= N
          /\ (~Blank(lastOp.query) /\ N > 0) =>
               /\ Len(hits) = IF lastOp.k < N THEN lastOp.k ELSE N
               /\ \A i \in 1..Len(hits) :
                     /\ hits[i][1] \in 0..(N - 1)
                     /\ hits[i][2] = LexScore(hits[i][1])
               /\ \A i, j \in 1..Len(hits) : i < j =>
                     before(hits[i][1], hits[i][2], hits[j][1], hits[j][2])
               /\ \A o \in (0..(N - 1)) \ HitOrds(hits) : \A i \in 1..Len(hits) :
                     before(hits[i][1], hits[i][2], o, LexScore(o))
               /\ \A o \in 0..(N - 1) :
                     TokenSet(_tokenize(lastOp.texts[o + 1])) \cap TokenSet(_tokenize(lastOp.query)) = {} =>
                       /\ LexScore(o) = Zero
                       /\ Cardinality({ q \in 0..(N - 1) : RLess(Zero, LexScore(q)) }) >= lastOp.k =>
                            o \notin HitOrds(hits)

\* a search with k = 2 over three documents: two with the same positive
\* score come in the order of their ordinals, the third shares no token with
\* the query and stays out
C27_Witness ==
    /\ LexDone("keyword_search")
    /\ Len(lastOp.texts) = 3 /\ lastOp.k = 2 /\ Len(lastOp.hits) = 2
    /\ lastOp.hits[1][2] = lastOp.hits[2][2]
    /\ RLess(Zero, lastOp.hits[1][2])
    /\ lastOp.hits[1][1] < lastOp.hits[2][1]
    /\ \E o \in 0..2 : o \notin HitOrds(lastOp.hits) /\ LexScore(o) = Zero

\* document d2 is document d1 with one more occurrence of the token t that
\* d1 already has
C28_Repeats(d1, d2, t) ==
    /\ t \in TokenSet(d1)
    /\ Len(d2) = Len(d1) + 1
    /\ \E p \in 1..Len(d2) :
          /\ d2[p] = t
          /\ d1 = SubSeq(d2, 1, p - 1) \o SubSeq(d2, p + 1, Len(d2))

\* the pairs of ordinals of the corpus and the query tokens that C28 is
\* about
C28_Pairs ==
    { x \in (0..(Len(lastOp.texts) - 1)) \X (0..(Len(lastOp.texts) - 1)) \X TokenSet(_tokenize(lastOp.query)) :
        C28_Repeats(_tokenize(lastOp.texts[x[1] + 1]), _tokenize(lastOp.texts[x[2] + 1]), x[3]) }

\* the summand of the token t in the score of the document with ordinal o
C28_Term(o, t) ==
    score_term(KeywordIndexBuild(lastOp.texts), _tokenize(lastOp.texts[o + 1]),
               Len(_tokenize(lastOp.texts[o + 1])), t)

\* C28: when one document of a corpus is another with a query term repeated
\* once more, the term contributes more to its BM25 score, and its score is
\* not lower for a query none of whose other tokens occurs in the documents.
C28_TermMonotone ==
    LexDone("keyword_search") =>
      \A x \in C28_Pairs :
        /\ RLess(C28_Term(x[1], x[3]), C28_Term(x[2], x[3]))
        /\ TokenSet(_tokenize(lastOp.query)) \cap TokenSet(_tokenize(lastOp.texts[x[1] + 1])) = {x[3]} =>
             ~RLess(LexScore(x[2]), LexScore(x[1]))

\* a search for "a" over a corpus with "a b" and "a a b"
C28_Witness ==
    /\ LexDone("keyword_search")
    /\ lastOp.query = <<"a">>
    /\ \E x \in C28_Pairs : RLess(LexScore(x[1]), LexScore(x[2]))

\* the monotonicity for every query: the document with the repeated term
\* never scores lower
C28_AsStated ==
    LexDone("keyword_search") =>
      \A x \in C28_Pairs : ~RLess(LexScore(x[2]), LexScore(x[1]))

\* the constructor of the index ran and its dependency check let the loader
\* start
LoaderRan ==
    /\ lastOp.op # "config"
    /\ ~(is_nomic(lastOp.config.primary) /\ ~lastOp.sentencepiece)

\* C21: the loader constructs the primary model first; when that succeeds
\* the primary is the model and the fallback is not constructed; when it
\* fails and the fallback has another name, the fallback is constructed
\* exactly once with the same kwargs and is the model if it succeeds; the
\* loader raises exactly when the primary fails and the fallback either has
\* the name of the primary (no second attempt) or fails too.
C21_TwoAttempts ==
    LoaderRan =>
        LET c == lastOp.config
            made == lastOp.constructed
            raised == lastOp.model = <<>>
        IN  /\ Len(made) \in 1..2
            /\ made[1][1] = c.primary
            /\ lastOp.ctor[1] => Len(made) = 1 /\ lastOp.model = <<c.primary>>
            /\ ~lastOp.ctor[1] /\ c.fallback = c.primary => Len(made) = 1 /\ raised
            /\ ~lastOp.ctor[1] /\ c.fallback # c.primary =>
                  /\ Len(made) = 2
                  /\ made[2] = <<c.fallback, made[1][2]>>
                  /\ IF lastOp.ctor[2] THEN lastOp.model = <<c.fallback>> ELSE raised
            /\ raised <=> ~lastOp.ctor[1] /\ (c.fallback = c.primary \/ ~lastOp.ctor[2])

\* the primary model failed to load and the index holds the fallback, which
\* was constructed with the kwargs of the primary
C21_Witness ==
    /\ lastOp.op = "RagIndex"
    /\ ~lastOp.ctor[1]
    /\ lastOp.config.fallback # lastOp.config.primary
    /\ lastOp.model = <<lastOp.config.fallback>>
    /\ Len(lastOp.constructed) = 2
    /\ lastOp.constructed[2][2] = lastOp.constructed[1][2]
    /\ lastOp.constructed[1][2] # <<>>

\* C22: an embedding call that fails, at build time or at query time, is
\* made once more with the fallback model, and no third time.
C22_EmbedRetried ==
    /\ lastOp.op \in { "build_from_texts", "_rebuild_index_from_docs", "_search_vectors" }
    /\ ~lastOp.encoded[1].ok
    => /\ Len(lastOp.encoded) = 2
       /\ lastOp.encoded[2].model = lastOp.config.fallback

\* the workers of start_build that were started and have not returned
RunningWorkers == { w \in Workers : loc[w].pc \notin { "unborn", "done" } }

\* a step in which the start_build of q ends with BuildInProgressError
Rejected(q) == pc[q].at = "check" /\ pc'[q].at = "idle"

\* C24: at most one build worker is running or about to be started at any
\* time, and the status is "running" while it is; a start_build that finds
\* the status "running" raises BuildInProgressError, and a start_build that
\* raises it found the status "running", starts no thread and leaves the
\* progress record as it was.
C24_SingleFlight ==
    /\ [](/\ Cardinality(RunningWorkers) + Cardinality({ q \in Requesters : pc[q].at = "spawn" }) <= 1
          /\ RunningWorkers # {} => idx.status = "running")
    /\ [][\A q \in Requesters :
            /\ pc[q].at = "check" /\ idx.status = "running" /\ pc'[q] # pc[q] => Rejected(q)
            /\ Rejected(q) =>
                 /\ idx.status = "running"
                 /\ lastOp' = [op |-> "start_build", by |-> q, outcome |-> "BuildInProgressError"]
                 /\ idx' = idx /\ calls' = calls /\ loc' = loc]_vars

\* a start_build was refused while the worker of another request was
\* building
C24_Witness ==
    /\ lastOp.outcome = "BuildInProgressError"
    /\ \E w \in RunningWorkers : loc[w].root # lastOp.by /\ loc[w].pc = "build" /\ idx.root = <<loc[w].root>>

\* the runs of the build entry points
EntryPoints == { CommandRun } \cup Workers

\* the directory an entry point builds in, and the files in it
TargetDir(e) == IF e = CommandRun THEN CommandDir ELSE DataDir

FilesOf(dirOpt) == IF dirOpt = <<>> THEN EmptyDir ELSE dirOpt[1]

\* C25: an entry point calls build_from_texts only with a non-empty chunk
\* list and with the index file absent or force set; with no chunks, or with
\* the index present and no force, it ends with the report "No code chunks
\* found" / "Index already exists" without the call, the worker's report is
\* the error of the progress record, and the files of the index are the ones
\* it found.
C25_BuildGuarded ==
    /\ [](\A e \in EntryPoints :
            /\ loc[e].built => loc[e].chunks # <<>> /\ (~loc[e].existed \/ loc[e].force)
            /\ loc[e].pc = "done" /\ loc[e].chunks = <<>> =>
                 ~loc[e].built /\ loc[e].report = "No code chunks found, aborting."
            /\ loc[e].pc = "done" /\ loc[e].chunks # <<>> /\ loc[e].existed /\ ~loc[e].force =>
                 ~loc[e].built /\ loc[e].report = "Index already exists. Use --force to rebuild.")
    /\ [][\A e \in EntryPoints :
            loc[e].pc # "done" /\ loc'[e].pc = "done" /\ ~loc'[e].built =>
              /\ FilesOf(fs'[TargetDir(e)]) = FilesOf(loc'[e].at_start)
              /\ FilesOf(fs'[TargetDir(e)]) = FilesOf(fs[TargetDir(e)])
              /\ e \in Workers => idx'.status = "error" /\ idx'.message = loc'[e].report]_vars

\* a worker found the index of an earlier build, was not forced, and ended
\* with the error in the progress record and the index as it was
C25_Witness ==
    \E w \in Workers :
        /\ loc[w].pc = "done" /\ loc[w].chunks # <<>> /\ loc[w].existed /\ ~loc[w].force
        /\ ~loc[w].built
        /\ idx.status = "error" /\ idx.message = "Index already exists. Use --force to rebuild."
        /\ fs[DataDir] = loc[w].at_start /\ index_exists(fs[DataDir])

\* the call b of _build has moved the serving directory of its source to
\* <id>.bak and its transaction has not committed
HoldsBackup(b) ==
    /\ pc[b] \in { "swap_replace", "save", "write_metadata", "on_commit" }
    /\ loc[b].swap_backup # <<>>

\* C23: from the swap of a build over an existing serving directory until
\* the commit of its transaction, no step of anyone else deletes or
\* overwrites <id>.bak.
C23_BackupKeptUntilCommit ==
    [][\A b \in Builders :
         HoldsBackup(b) /\ pc'[b] = pc[b] => fs'[Bak(loc[b].sid)] = fs[Bak(loc[b].sid)]]_vars

\* _gather_contexts has returned or raised
Gathered == lastOp.op = "_gather_contexts" /\ lastOp.done

\* the sources whose search returned hits, and the scores _gather_contexts
\* gave the hits of a source
Contributing == { s \in Sids : Gathered /\ lastOp.hits_of[s] # <<>> }

ScoresOf(s) == { lastOp.combined[i][2] : i \in { j \in 1..Len(lastOp.combined) : lastOp.combined[j][3] = s } }

\* what C29 says of the errors, of the range and the order of the scores
\* and of the cut
C29_Merged ==
    Gathered =>
        /\ lastOp.outcome # "ok" <=>
              \/ lastOp.sources = <<>>
              \/ lastOp.rag_sources = <<>>
              \/ Contributing = {}
        /\ lastOp.outcome # "ok" => lastOp.contexts = <<>>
        /\ lastOp.outcome = "ok" =>
              /\ Len(lastOp.contexts) = IF lastOp.top_k < Len(lastOp.combined) THEN lastOp.top_k ELSE Len(lastOp.combined)
              /\ \A i \in 1..Len(lastOp.contexts) :
                    /\ ~RLess(lastOp.contexts[i][2], Zero) /\ ~RLess(One, lastOp.contexts[i][2])
                    /\ \E j \in 1..Len(lastOp.combined) : lastOp.combined[j] = lastOp.contexts[i]
                    /\ i > 1 => ~RLess(lastOp.contexts[i - 1][2], lastOp.contexts[i][2])
              /\ \A i \in 1..Len(lastOp.combined) :
                    \/ \E j \in 1..Len(lastOp.contexts) : lastOp.contexts[j] = lastOp.combined[i]
                    \/ ~RLess(lastOp.contexts[Len(lastOp.contexts)][2], lastOp.combined[i][2])

\* C29: _gather_contexts raises AnswerNotReadyError exactly when no source
\* is selected, none matches or none returns a hit; otherwise the scores lie
\* in [0, 1], the list is sorted by score, best first, and cut to top_k, and
\* the best hit of every contributing source whose highest fused score is
\* positive has the score 1; the hits of a source whose fused scores are all
\* 0 are given the score 0.
C29_Normalized ==
    /\ C29_Merged
    /\ \A s \in Contributing :
          /\ \A i \in 1..Len(lastOp.hits_of[s]) :
                <<lastOp.hits_of[s][i][1],
                  IF max_score_of(lastOp.hits_of[s]) = Zero THEN Zero
                  ELSE RDiv(lastOp.hits_of[s][i][2], max_score_of(lastOp.hits_of[s])), s>>
                \in { lastOp.combined[j] : j \in 1..Len(lastOp.combined) }
          /\ RLess(Zero, max_score_of(lastOp.hits_of[s])) => One \in ScoresOf(s)
          /\ max_score_of(lastOp.hits_of[s]) = Zero => ScoresOf(s) = { Zero }

\* two sources contribute, the best hit of each has the score 1, and the
\* merged list was cut to top_k
C29_Witness ==
    /\ Gathered /\ lastOp.outcome = "ok"
    /\ Contributing = Sids
    /\ \A s \in Sids : One \in ScoresOf(s) /\ max_score_of(lastOp.hits_of[s]) # One
    /\ Len(lastOp.contexts) = lastOp.top_k /\ Len(lastOp.combined) > lastOp.top_k
    /\ \E i \in 1..Len(lastOp.combined) : RLess(lastOp.combined[i][2], One)

\* C29 as stated: the best hit of every contributing source has the score 1
C29_AsStated ==
    C29_Merged /\ \A s \in Contributing : One \in ScoresOf(s)

\* the instances the registry holds
CachedInstances(reg) == UNION { { reg.indexes[s][i] : i \in 1..Len(reg.indexes[s]) } : s \in Sids }

PathsOf(b) == { Srv(loc[b].sid), Tmp(loc[b].sid), Bak(loc[b].sid) }

\* a step of the call b of _build that changes a directory of its source
Mutates(b) == pc'[b] # pc[b] /\ pc[b] # "idle" /\ \E p \in PathsOf(b) : fs'[p] # fs[p]

\* C34: a call of _build changes the temp, backup and serving directory of
\* its source only while it holds the lock of the source, and never while
\* another call holds it.
C34_MutationsUnderLock ==
    [][\A b \in Builders :
         Mutates(b) =>
           /\ locks[loc[b].sid] = <<b>>
           /\ ~\E o \in Builders \ { b } : locks[loc[b].sid] = <<o>>]_vars

\* the second half of C34 alone: no call changes a directory of a source
\* while another call holds the lock of that source
C34_NeverUnderOthersLock ==
    [][\A b \in Builders :
         Mutates(b) => ~\E o \in Builders \ { b } : locks[loc[b].sid] = <<o>>]_vars

\* C37: two document lists that differ, in a text, in their count or in how
\* a text is split over the documents, have different checksums.
C37_ChecksumIdentifiesDocs ==
    lastOp.op = "_compute_checksum" /\ lastOp.done /\ lastOp.docs_a # lastOp.docs_b
    => lastOp.checksum_a # lastOp.checksum_b

\* C35: once a rebuild of a source has swapped the directory and dropped the
\* cached instance, the registry never holds an instance of that source
\* whose documents are not the ones of the serving directory: no
\* interleaving of _load_rag_source with the rebuild stores an instance that
\* was loaded before the swap.
C35_NoStaleInstance ==
    \A s \in Sids :
        (idx.indexes[s] # <<>> /\ fs[Srv(s)] # <<>>)
            => <<idx.indexes[s][1].mem.docs>> = fs[Srv(s)][1].docs

\* a worker of the build runner that has started and not returned
Working(w) == loc[w].pc \notin { "unborn", "done" }

\* C39: every execution of _execute_build returns with the status
\* "completed" or "error"; the status it leaves is "completed", with percent
\* 100, only when build_from_texts returned without raising, and "error" on
\* every path on which it did not; and the status is "running" only while a
\* start_build is about to start its thread or a worker has not returned.
C39_TerminalStatus ==
    /\ [](idx.status = "running" =>
            \/ \E w \in Workers : Working(w)
            \/ \E q \in Requesters : pc[q].at = "spawn")
    /\ [][\A w \in Workers :
            (Working(w) /\ loc'[w].pc = "done") =>
                /\ idx'.status \in { "completed", "error" }
                /\ idx'.status = "completed" => (loc[w].pc = "complete" /\ idx'.percent = 100)
                /\ loc[w].pc # "complete" => idx'.status = "error"]_vars

\* a worker has returned from the except branch after build_from_texts
\* raised, and the status is "error"
C39_Witness ==
    \E w \in Workers :
        /\ loc[w].pc = "done" /\ loc[w].built
        /\ loc[w].report = "Failed to build RAG index. See errors for details."
        /\ idx.status = "error"
        /\ fs[DataDir] = <<>>

\* C39, progress: under SpecRunnerLive a status "running" is always followed
\* by a terminal status.
C39_EndsTerminal == (idx.status = "running") ~> (idx.status \in { "completed", "error" })

\* C39: the build status lifecycle under SpecRunnerLive: every worker
\* returns with a terminal status that is "completed" with percent 100 only
\* after build_from_texts returned and "error" on every other path, and every
\* status "running" is followed by a terminal one.
C39_Lifecycle == C39_TerminalStatus /\ C39_EndsTerminal

\* the dense index, the tokenized documents, the BM25 statistics of mem and
\* the fuzzy index of the directory are the ones built from mem.docs
OneSnapshot(mem, dirOpt) ==
    /\ mem.index # <<>>
    /\ [i \in 1..Len(mem.index[1].vecs) |-> mem.index[1].vecs[i].t] = mem.docs
    /\ mem.tokenized_docs = KeywordIndexBuild(mem.docs).tokenized_docs
    /\ mem.keyword_index = <<KeywordIndexBuild(mem.docs)>>
    /\ dirOpt # <<>> /\ dirOpt[1].whoosh = <<InvertedIndexBuild(mem.docs)>>

\* C32: after any sequence of build_from_texts and load calls on the same
\* paths, builds interrupted between two artifact writes included, every
\* load that succeeds yields a dense index, tokenized documents, BM25
\* statistics and a fuzzy index that were all built from the documents it
\* loaded.
C32_LoadedSnapshotConsistent ==
    (lastOp.op = "load" /\ lastOp.outcome = "ok") => OneSnapshot(idx.mem, fs[DataDir])

\* C38: when a load that took the rebuild path has returned, the dense
\* index, the BM25 data, the fuzzy index and the metadata on disk are the
\* ones derived from the loaded documents under the configuration of the
\* instance, and a load that directly follows on the same instance and
\* paths takes the reuse path: it neither rebuilds nor calls the embedding
\* model.
C38_RebuildConverges ==
    /\ [](RebuildOk => (C6_Fresh(fs[DataDir][1], idx.cfg, idx.mem.docs) /\ ~C6_Stale(fs[DataDir][1], idx.cfg)))
    /\ [][(RebuildOk /\ lastOp'.op = "load")
            => (lastOp'.outcome = "ok" /\ ~lastOp'.rebuilt /\ ~lastOp'.encoded)]_vars

\* a load that reused what the rebuilding load before it had written in
\* place of a damaged artifact
C38_Witness ==
    /\ lastOp.op = "load" /\ lastOp.afterRebuild
    /\ lastOp.outcome = "ok" /\ ~lastOp.encoded
    /\ damage > 0


\* C33: an instance that became READY before its serving directory was
\* rebuilt answers every search from one corpus snapshot, also between the
\* swap and the drop of the cached instance: every fuzzy hit it fuses names
\* an ordinal of its own document list, and the document at that ordinal
\* shares a term with the query, as the documents at the ordinals of its
\* dense and BM25 hits are its own.
C33_SearchFromOneSnapshot ==
    lastOp.op = "search" =>
        /\ \A i \in 1..Len(lastOp.inverted_hits) :
              /\ lastOp.inverted_hits[i][1] < Len(lastOp.docs)
              /\ TokenSet(_tokenize(lastOp.docs[lastOp.inverted_hits[i][1] + 1])) \cap TokenSet(_tokenize(lastOp.query)) # {}
        /\ \A i \in 1..Len(lastOp.vector_hits) : lastOp.vector_hits[i][1] < Len(lastOp.docs)
        /\ \A i \in 1..Len(lastOp.bm25_hits) : lastOp.bm25_hits[i][1] < Len(lastOp.docs)

\* C36: the fuzzy search of a cached instance, the one _build put into the
\* cache included, reads <serving dir>/whoosh_index: its handle names the
\* serving directory of the source and its fuzzy hits are the ones an
\* instance freshly loaded from the serving directory gets.
C36_WarmReadsServingDir ==
    lastOp.op = "search" =>
        /\ lastOp.root_dir = Srv(lastOp.sid)
        /\ lastOp.inverted_hits = InvertedIndexSearch(fs[Srv(lastOp.sid)], lastOp.query, MaxK, One)

\* a selected source whose index is not ready: its load raises the
\* missing-index error or its search the not-loaded error
NotReady(s) ==
    /\ \E i \in 1..Len(lastOp.sources) : lastOp.sources[i] = s
    /\ index_raises(lastOp.dir_of[s], Srv(s), lastOp.question) \in { "FileNotFoundError", "RuntimeError" }

\* C31: when the index of a selected source is not ready, the query path
\* reports the not-ready kind (RagAnswerNotReadyError, status 503) and not a
\* generic internal error (status 500).
C31_NotReadyReported ==
    (lastOp.op = "answer" /\ lastOp.done /\ \E s \in Sids : NotReady(s))
        => (lastOp.boundary = "RagAnswerNotReadyError" /\ lastOp.status = 503)

====
